---- MODULE Spec2Model ----
(***************************************************************************)
(* Model of the english-tutor backend: the assessment scoring and level    *)
(* classification of AssessmentService, and the task eligibility and       *)
(* selection of TaskDeliveryService over the tasks and users tables.       *)
(*                                                                         *)
(* Numbers.  Python floats are modelled exactly:                           *)
(*   - a weight w is the integer 2*w (unit 0.5, so 1.0 is 2 and 1.5 is 3); *)
(*   - a score is a fraction [num |-> n, den |-> d] with d > 0, compared   *)
(*     by cross multiplication; the thresholds of LEVEL_THRESHOLDS are in  *)
(*     hundredths (0.20 is 20, 1.01 is 101).                               *)
(* For the small integers of the model the float quotient earned/total is  *)
(* on the same side of every threshold as the exact fraction.              *)
(***************************************************************************)
EXTENDS Integers, Sequences, FiniteSets, TLC

VARIABLES
    tasks,   \* the tasks table: a set of rows [id, level, status]
    users,   \* the users table: user id -> [current_level]
    call,    \* the operation last invoked, with its arguments
    ret,     \* its outcome: [kind |-> "return" | "raise", value |-> ...]
    assessment_questions,  \* the assessment_questions table: a set of rows
                           \* [id, level, correct_answer, weight]
    assessments,  \* the assessments table: assessment id -> row [user_id,
                  \* questions, answers, score, resulting_level, status,
                  \* completed_at]
    task_questions,  \* the questions table (questions of tasks): rows
                     \* [id, task_id, correct_answer, weight, order]
    progress,     \* the progress table: rows [user_id, task_id, answers,
                  \* score, percentage_correct, completed_at]
    user_data,    \* context.user_data of each bot process and chat
    procs,        \* each bot process: where it is inside assess_command
    schema,       \* how the database was created: "alembic" or "create_all"
    now           \* the clock read by datetime.now

\* the variables of the assessment and task-completion flows
flowvars == <<assessment_questions, assessments, task_questions, progress,
              user_data, procs, schema, now>>

vars == <<now, call, tasks, users, ret, assessment_questions, assessments,
          task_questions, progress, user_data, procs, schema>>

(***************************************************************************)
(* Bounds of the model.                                                    *)
(***************************************************************************)
MaxDen == 200        \* scores n/d are drawn with 1 <= d <= MaxDen
MaxQuestions == 2    \* longest question list passed to calculate_score
MaxWeight == 3       \* largest weight, in units of 0.5
MaxOption == 1       \* answer options are 0..MaxOption
MaxTasks == 2        \* most rows in the tasks table

(***************************************************************************)
(* Outcomes of a call.                                                     *)
(***************************************************************************)
NULL == "NULL"                       \* SQL NULL / Python None in a column
Procs == {"p1", "p2"}                \* bot processes sharing the database
Chats == {"u1"}                      \* Telegram users talking to the bot

\* an empty context.user_data: a dict is the function from its keys
EmptyUserData == << >>

\* d.get(key, default)
Get(d, key, default) == IF key \in DOMAIN d THEN d[key] ELSE default

\* d[key] = value
Put(d, key, value) ==
    [k \in DOMAIN d \cup {key} |-> IF k = key THEN value ELSE d[k]]

\* d.pop(key, None)
Pop(d, key) == [k \in DOMAIN d \ {key} |-> d[k]]

\* a process that is in no handler
Idle == [pc |-> "idle"]

\* the state of the flows before the bot has handled anything, on an empty
\* database
InitFlowEmpty ==
    /\ assessment_questions = {}
    /\ assessments = << >>
    /\ task_questions = {}
    /\ progress = {}
    /\ user_data = [p \in Procs |-> [c \in Chats |-> EmptyUserData]]
    /\ procs = [p \in Procs |-> Idle]
    /\ schema = "alembic"
    /\ now = 0
None == [none |-> TRUE]              \* Python None as a returned value
NoRet == [kind |-> "pending"]        \* the call has not run yet
Return(v) == [kind |-> "return", value |-> v]
Raise(e) == [kind |-> "raise", value |-> e]

(***************************************************************************)
(* services/assessment.py: determine_level                                 *)
(***************************************************************************)
LEVEL_THRESHOLDS ==
    << [level |-> "A1", min |-> 0,  max |-> 20],
       [level |-> "A2", min |-> 20, max |-> 40],
       [level |-> "B1", min |-> 40, max |-> 60],
       [level |-> "B2", min |-> 60, max |-> 80],
       [level |-> "C1", min |-> 80, max |-> 95],
       [level |-> "C2", min |-> 95, max |-> 101] >>

\* variant of InRange with the upper bound inclusive
InRangeClosedUpper(score, t) ==
    /\ t.min * score.den <= 100 * score.num
    /\ 100 * score.num <= t.max * score.den

\* min_score <= score < max_score
InRange(score, t) ==
    /\ t.min * score.den <= 100 * score.num
    /\ 100 * score.num < t.max * score.den

\* the for loop over LEVEL_THRESHOLDS.items(), in insertion order, and the
\* raise after it
RECURSIVE LevelLoop(_, _)
LevelLoop(score, i) ==
    IF i > Len(LEVEL_THRESHOLDS)
    THEN Raise("AssessmentError")
    ELSE IF InRange(score, LEVEL_THRESHOLDS[i])
         THEN Return(LEVEL_THRESHOLDS[i].level)
         ELSE LevelLoop(score, i + 1)

\* variant of determine_level without the range check of its first line
determine_level_unchecked(score) == LevelLoop(score, 1)

determine_level(score) ==
    IF score.num < 0 \/ score.num > score.den
    THEN Raise("AssessmentError")
    ELSE LevelLoop(score, 1)

(***************************************************************************)
(* Specification SpecLevel: determine_level applied to every score n/d     *)
(* with 1 <= d <= MaxDen and -1 <= n <= d + 1.                             *)
(***************************************************************************)
ScoreInputs ==
    UNION { { [num |-> n, den |-> d] : n \in -1 .. d + 1 } : d \in 1 .. MaxDen }

InitLevel ==
    /\ InitFlowEmpty
    /\ tasks = {}
    /\ users = << >>
    /\ \E s \in ScoreInputs : call = [op |-> "determine_level", score |-> s]
    /\ ret = NoRet

DetermineLevel ==
    /\ call.op = "determine_level"
    /\ ret = NoRet
    /\ ret' = determine_level(call.score)
    /\ UNCHANGED <<tasks, users, call>>
    /\ UNCHANGED flowvars

NextLevel == DetermineLevel

SpecLevel == InitLevel /\ [][NextLevel]_vars

LevelDone == call.op = "determine_level" /\ ret # NoRet
ScoreValid(s) == 0 <= s.num /\ s.num <= s.den

\* the level table as the specification states it, in exact fractions:
\* 0.20 = 1/5, 0.40 = 2/5, 0.60 = 3/5, 0.80 = 4/5, 0.95 = 19/20
ClaimedLevel(s) ==
    IF 5 * s.num < s.den THEN "A1"
    ELSE IF 5 * s.num < 2 * s.den THEN "A2"
    ELSE IF 5 * s.num < 3 * s.den THEN "B1"
    ELSE IF 5 * s.num < 4 * s.den THEN "B2"
    ELSE IF 20 * s.num < 19 * s.den THEN "C1"
    ELSE "C2"

MatchingRanges(s) ==
    { i \in 1 .. Len(LEVEL_THRESHOLDS) : InRange(s, LEVEL_THRESHOLDS[i]) }

\* C1: for every score in [0, 1] determine_level returns the level of the
\* specification's table (A1 below 0.20, A2 from 0.20, B1 from 0.40, B2 from
\* 0.60, C1 from 0.80, C2 from 0.95 up to and including 1.0), and exactly one
\* range of LEVEL_THRESHOLDS contains the score (no gap, no overlap).
C1_LevelPartition ==
    (LevelDone /\ ScoreValid(call.score)) =>
        /\ ret = Return(ClaimedLevel(call.score))
        /\ Cardinality(MatchingRanges(call.score)) = 1

\* the boundary 0.2 has been classified, as A2
C1_Witness ==
    /\ LevelDone
    /\ 5 * call.score.num = call.score.den
    /\ ret = Return("A2")

\* C2: for every score below 0.0 and every score above 1.0 determine_level
\* raises AssessmentError and returns no level.
C2_OutOfRangeRaises ==
    (LevelDone /\ ~ScoreValid(call.score)) => ret = Raise("AssessmentError")

\* a score strictly between 1.0 and 1.01, which the C2 range (0.95, 1.01)
\* would contain, has been rejected
C2_Witness ==
    /\ LevelDone
    /\ call.score.num > call.score.den
    /\ 100 * call.score.num < 101 * call.score.den
    /\ ret.kind = "raise"

(***************************************************************************)
(* services/assessment.py: calculate_score                                 *)
(***************************************************************************)
\* question.get("weight", 1.0); 1.0 is 2 units of 0.5
WeightOf(question) ==
    IF "weight" \in DOMAIN question THEN question.weight ELSE 2

\* variant of IsCorrect that tests the answer for truth before comparing it,
\* so that option 0 never counts
IsCorrectTruthy(question, answers) ==
    /\ question.id \in DOMAIN answers
    /\ answers[question.id] # 0
    /\ answers[question.id] = question.correct_answer

\* variant of IsCorrect that counts every answered question
IsAnswered(question, answers) == question.id \in DOMAIN answers

\* question_id in answers and answers[question_id] == correct_answer
IsCorrect(question, answers) ==
    /\ question.id \in DOMAIN answers
    /\ answers[question.id] = question.correct_answer

\* the for loop of calculate_score: total_weight and earned_weight after
\* the questions i .. Len(questions)
RECURSIVE ScoreLoop(_, _, _, _, _)
ScoreLoop(questions, answers, i, total_weight, earned_weight) ==
    IF i > Len(questions)
    THEN [total_weight |-> total_weight, earned_weight |-> earned_weight]
    ELSE LET question == questions[i]
             weight == WeightOf(question)
         IN  ScoreLoop(questions, answers, i + 1,
                       total_weight + weight,
                       IF IsCorrect(question, answers)
                       THEN earned_weight + weight
                       ELSE earned_weight)

\* Python's a / b on floats
Divide(a, b) ==
    IF b = 0 THEN Raise("ZeroDivisionError")
    ELSE Return([num |-> a, den |-> b])

\* variant of calculate_score without the total_weight == 0 guard
calculate_score_unguarded(questions, answers) ==
    LET acc == ScoreLoop(questions, answers, 1, 0, 0)
    IN  Divide(acc.earned_weight, acc.total_weight)

\* variant of calculate_score that returns a percentage, as the task
\* completion feedback does
calculate_score_percent(questions, answers) ==
    LET acc == ScoreLoop(questions, answers, 1, 0, 0)
    IN  IF acc.total_weight = 0
        THEN Return([num |-> 0, den |-> 1])
        ELSE Divide(100 * acc.earned_weight, acc.total_weight)

calculate_score(questions, answers) ==
    LET acc == ScoreLoop(questions, answers, 1, 0, 0)
    IN  IF acc.total_weight = 0
        THEN Return([num |-> 0, den |-> 1])
        ELSE Divide(acc.earned_weight, acc.total_weight)

(***************************************************************************)
(* Specification SpecScore: calculate_score applied to every question list *)
(* of at most MaxQuestions questions and every answer map.                 *)
(***************************************************************************)
QuestionIds == {"q1", "q2"}
AnswerKeys == QuestionIds \cup {"q9"}     \* "q9" is the id of no question
Options == 0 .. MaxOption

\* a question dictionary, with or without the "weight" key
QuestionInputs ==
    [id : QuestionIds, correct_answer : Options, weight : 0 .. MaxWeight]
    \cup [id : QuestionIds, correct_answer : Options]

QuestionLists == UNION { [1 .. n -> QuestionInputs] : n \in 0 .. MaxQuestions }

AnswerMaps == UNION { [K -> Options] : K \in SUBSET AnswerKeys }

InitScore ==
    /\ InitFlowEmpty
    /\ tasks = {}
    /\ users = << >>
    /\ \E questions \in QuestionLists, answers \in AnswerMaps :
          call = [op |-> "calculate_score",
                  questions |-> questions, answers |-> answers]
    /\ ret = NoRet

CalculateScore ==
    /\ call.op = "calculate_score"
    /\ ret = NoRet
    /\ ret' = calculate_score(call.questions, call.answers)
    /\ UNCHANGED <<tasks, users, call>>
    /\ UNCHANGED flowvars

NextScore == CalculateScore

SpecScore == InitScore /\ [][NextScore]_vars

ScoreDone == call.op = "calculate_score" /\ ret # NoRet

\* the sum of the weights of the questions at the positions S
RECURSIVE SumWeights(_, _)
SumWeights(questions, S) ==
    IF S = {} THEN 0
    ELSE LET i == CHOOSE j \in S : TRUE
         IN  WeightOf(questions[i]) + SumWeights(questions, S \ {i})

\* positions of the questions whose id is a key of the answer map and whose
\* submitted option equals correct_answer
CorrectPositions(questions, answers) ==
    { i \in DOMAIN questions :
        /\ questions[i].id \in DOMAIN answers
        /\ answers[questions[i].id] = questions[i].correct_answer }

TotalOf(questions) == SumWeights(questions, DOMAIN questions)
EarnedOf(questions, answers) ==
    SumWeights(questions, CorrectPositions(questions, answers))

\* C3: calculate_score returns earned/total, where total is the sum of the
\* weights of all questions of the list and earned the sum of the weights of
\* exactly the questions answered with their correct option; unanswered and
\* wrongly answered questions count in total only.  (Total 0 is C4's case.)
C3_ScoreIsEarnedOverTotal ==
    (ScoreDone /\ TotalOf(call.questions) # 0) =>
        /\ ret.kind = "return"
        /\ ret.value.num * TotalOf(call.questions)
             = EarnedOf(call.questions, call.answers) * ret.value.den

\* two questions, one answered correctly and one wrongly or not at all,
\* scored strictly between 0 and 1
C3_Witness ==
    /\ ScoreDone
    /\ Len(call.questions) = 2
    /\ Cardinality(CorrectPositions(call.questions, call.answers)) = 1
    /\ ret.kind = "return"
    /\ 0 < ret.value.num
    /\ ret.value.num < ret.value.den

\* C4: when the total weight of the list is zero (empty list, or every
\* weight zero) calculate_score returns exactly 0.0 and raises no error.
C4_ZeroTotalGivesZero ==
    (ScoreDone /\ TotalOf(call.questions) = 0) =>
        /\ ret.kind = "return"
        /\ ret.value.num = 0

\* a non-empty list of zero-weight questions, one of them answered
\* correctly, has been scored
C4_Witness ==
    /\ ScoreDone
    /\ Len(call.questions) > 0
    /\ TotalOf(call.questions) = 0
    /\ CorrectPositions(call.questions, call.answers) # {}
    /\ ret.kind = "return"

\* C5: for non-negative weights calculate_score never fails and its result
\* lies in [0, 1].
C5_ScoreInUnitInterval ==
    ScoreDone =>
        /\ ret.kind = "return"
        /\ ret.value.den > 0
        /\ 0 <= ret.value.num
        /\ ret.value.num <= ret.value.den

\* a list of total weight above zero has been scored with everything
\* answered correctly, the upper end of the interval
C5_Witness ==
    /\ ScoreDone
    /\ TotalOf(call.questions) > 0
    /\ EarnedOf(call.questions, call.answers) = TotalOf(call.questions)
    /\ ret.kind = "return"
    /\ ret.value.num = ret.value.den

\* C6: with total weight above zero, calculate_score returns 1.0 when every
\* question is answered with its correct option and 0.0 when none is
\* (every answer wrong or missing, the empty answer map included).
C6_AllCorrectOneNoneCorrectZero ==
    (ScoreDone /\ TotalOf(call.questions) > 0) =>
        /\ ret.kind = "return"
        /\ CorrectPositions(call.questions, call.answers) = DOMAIN call.questions
              => ret.value.num = ret.value.den
        /\ CorrectPositions(call.questions, call.answers) = {}
              => ret.value.num = 0

\* two different questions, both with correct option 0 and both answered
\* with it, scored 1.0
C6_Witness ==
    /\ ScoreDone
    /\ Len(call.questions) = 2
    /\ call.questions[1].id # call.questions[2].id
    /\ \A i \in 1 .. 2 : call.questions[i].correct_answer = 0
    /\ TotalOf(call.questions) > 0
    /\ CorrectPositions(call.questions, call.answers) = {1, 2}
    /\ ret = Return([num |-> TotalOf(call.questions),
                     den |-> TotalOf(call.questions)])

(***************************************************************************)
(* services/task_delivery.py                                               *)
(***************************************************************************)
LEVEL_ORDER == <<"A1", "A2", "B1", "B2", "C1", "C2">>

Range(seq) == { seq[i] : i \in DOMAIN seq }

\* x in seq
InList(x, seq) == \E i \in DOMAIN seq : seq[i] = x

\* seq.index(x), counted from 1
IndexOf(x, seq) ==
    CHOOSE i \in DOMAIN seq : seq[i] = x /\ \A j \in 1 .. i - 1 : seq[j] # x

\* variant of valid_levels whose lower neighbour is added only above the
\* second level
valid_levels_lower_off_by_one(level) ==
    LET level_idx == IndexOf(level, LEVEL_ORDER)
    IN  <<LEVEL_ORDER[level_idx]>>
        \o (IF level_idx > 2 THEN <<LEVEL_ORDER[level_idx - 1]>> ELSE << >>)
        \o (IF level_idx < Len(LEVEL_ORDER)
            THEN <<LEVEL_ORDER[level_idx + 1]>> ELSE << >>)

\* the list valid_levels built by get_tasks_by_level; level_idx counts from
\* 1 here, so "level_idx > 0" reads level_idx > 1 and
\* "level_idx < len(LEVEL_ORDER) - 1" reads level_idx < Len(LEVEL_ORDER)
valid_levels(level) ==
    LET level_idx == IndexOf(level, LEVEL_ORDER)
    IN  <<LEVEL_ORDER[level_idx]>>
        \o (IF level_idx > 1 THEN <<LEVEL_ORDER[level_idx - 1]>> ELSE << >>)
        \o (IF level_idx < Len(LEVEL_ORDER)
            THEN <<LEVEL_ORDER[level_idx + 1]>> ELSE << >>)

\* the outcome of a get_tasks_by_level that returns: the rows of the query
\* (a set: the query has no ORDER BY) and the valid_levels it logs
Retrieved(rows, levels) ==
    [kind |-> "return", value |-> rows, valid_levels |-> levels]

\* variant of get_tasks_by_level that filters by an unknown level instead of
\* raising
get_tasks_by_level_lenient(level, db_tasks) ==
    LET levels == IF InList(level, LEVEL_ORDER)
                  THEN valid_levels(level) ELSE <<level>>
    IN  Retrieved({ t \in db_tasks : /\ InList(t.level, levels)
                                     /\ t.status = "published" },
                  levels)

\* variant of get_tasks_by_level without the status filter
get_tasks_by_level_any_status(level, db_tasks) ==
    IF ~InList(level, LEVEL_ORDER)
    THEN Raise("TaskDeliveryError")
    ELSE Retrieved({ t \in db_tasks : InList(t.level, valid_levels(level)) },
                   valid_levels(level))

get_tasks_by_level(level, db_tasks) ==
    IF ~InList(level, LEVEL_ORDER)
    THEN Raise("TaskDeliveryError")
    ELSE Retrieved({ t \in db_tasks : /\ InList(t.level, valid_levels(level))
                                      /\ t.status = "published" },
                   valid_levels(level))

\* variant of select_task_for_user that raises when no task is available
select_task_for_user_strict(user_id, db_users, db_tasks) ==
    IF user_id \notin DOMAIN db_users
    THEN { Raise("TaskDeliveryError") }
    ELSE IF db_users[user_id].current_level = NULL
    THEN { Raise("TaskDeliveryError") }
    ELSE LET got == get_tasks_by_level(db_users[user_id].current_level, db_tasks)
         IN  IF got.kind = "raise" THEN { got }
             ELSE IF got.value = {} THEN { Raise("TaskDeliveryError") }
             ELSE { Return(t) : t \in got.value }

\* the possible outcomes of select_task_for_user; tasks[0] is any row of the
\* query's result, whose order the query leaves open
select_task_for_user(user_id, db_users, db_tasks) ==
    IF user_id \notin DOMAIN db_users
    THEN { Raise("TaskDeliveryError") }
    ELSE IF db_users[user_id].current_level = NULL
    THEN { Raise("TaskDeliveryError") }
    ELSE LET got == get_tasks_by_level(db_users[user_id].current_level, db_tasks)
         IN  IF got.kind = "raise" THEN { got }
             ELSE IF got.value = {} THEN { Return(None) }
             ELSE { Return(t) : t \in got.value }

(***************************************************************************)
(* Specification SpecTasks: the tasks table under the content API          *)
(* (api/content/tasks.py) and the two queries of TaskDeliveryService.      *)
(* A task row keeps the columns the queries read: id, level, status.       *)
(***************************************************************************)
Levels == Range(LEVEL_ORDER)
LevelInputs == Levels \cup {"Z9", "a1"}
StatusInputs == {"draft", "published", "archived"}
TaskIds == 1 .. MaxTasks
UserIds == {"u1"}
UserIdInputs == UserIds \cup {"u2"}

TaskWithId(task_id) == { t \in tasks : t.id = task_id }

InitTasks ==
    /\ InitFlowEmpty
    /\ tasks = {}
    /\ users \in [UserIds -> [current_level : Levels \cup {NULL}]]
    /\ call = [op |-> "none"]
    /\ ret = NoRet

\* POST /tasks
CreateTask(level, status) ==
    /\ Cardinality(tasks) < MaxTasks
    /\ call' = [op |-> "create_task"]
    /\ IF level \notin {"A1", "A2", "B1", "B2", "C1", "C2"}
          \/ status \notin {"draft", "published"}
       THEN /\ ret' = Raise(400)
            /\ UNCHANGED tasks
       ELSE /\ \E id \in TaskIds \ { t.id : t \in tasks } :
                  tasks' = tasks \cup
                      { [id |-> id, level |-> level, status |-> status] }
            /\ ret' = Return(201)
    /\ UNCHANGED users
    /\ UNCHANGED flowvars

\* PUT /tasks/{task_id}; level and status are NULL when not provided
UpdateTask(task_id, level, status) ==
    /\ call' = [op |-> "update_task"]
    /\ IF TaskWithId(task_id) = {}
       THEN /\ ret' = Raise(404)
            /\ UNCHANGED tasks
       ELSE IF \/ (level # NULL /\ level \notin {"A1", "A2", "B1", "B2", "C1", "C2"})
               \/ (status # NULL /\ status \notin {"draft", "published"})
       THEN /\ ret' = Raise(400)
            /\ UNCHANGED tasks
       ELSE /\ tasks' =
                 { IF t.id = task_id
                   THEN [id |-> t.id,
                         level |-> IF level # NULL THEN level ELSE t.level,
                         status |-> IF status # NULL THEN status ELSE t.status]
                   ELSE t : t \in tasks }
            /\ ret' = Return(200)
    /\ UNCHANGED users
    /\ UNCHANGED flowvars

\* DELETE /tasks/{task_id}
DeleteTask(task_id) ==
    /\ call' = [op |-> "delete_task"]
    /\ IF TaskWithId(task_id) = {}
       THEN /\ ret' = Raise(404)
            /\ UNCHANGED tasks
       ELSE /\ tasks' = tasks \ TaskWithId(task_id)
            /\ ret' = Return(204)
    /\ UNCHANGED users
    /\ UNCHANGED flowvars

\* POST /tasks/{task_id}/publish
PublishTask(task_id) ==
    /\ call' = [op |-> "publish_task"]
    /\ IF TaskWithId(task_id) = {}
       THEN /\ ret' = Raise(404)
            /\ UNCHANGED tasks
       ELSE IF \E t \in TaskWithId(task_id) : t.status = "published"
       THEN /\ ret' = Raise(400)
            /\ UNCHANGED tasks
       ELSE /\ tasks' =
                 { IF t.id = task_id
                   THEN [id |-> t.id, level |-> t.level, status |-> "published"]
                   ELSE t : t \in tasks }
            /\ ret' = Return(200)
    /\ UNCHANGED users
    /\ UNCHANGED flowvars

GetTasksByLevel(level) ==
    /\ call' = [op |-> "get_tasks_by_level", level |-> level]
    /\ ret' = get_tasks_by_level(level, tasks)
    /\ UNCHANGED <<tasks, users>>
    /\ UNCHANGED flowvars

SelectTaskForUser(user_id) ==
    /\ call' = [op |-> "select_task_for_user", user_id |-> user_id]
    /\ ret' \in select_task_for_user(user_id, users, tasks)
    /\ UNCHANGED <<tasks, users>>
    /\ UNCHANGED flowvars

NextTasks ==
    \/ \E level \in LevelInputs, status \in StatusInputs :
          CreateTask(level, status)
    \/ \E task_id \in TaskIds, level \in LevelInputs \cup {NULL},
          status \in StatusInputs \cup {NULL} :
          UpdateTask(task_id, level, status)
    \/ \E task_id \in TaskIds : DeleteTask(task_id)
    \/ \E task_id \in TaskIds : PublishTask(task_id)
    \/ \E level \in LevelInputs : GetTasksByLevel(level)
    \/ \E user_id \in UserIdInputs : SelectTaskForUser(user_id)

SpecTasks == InitTasks /\ [][NextTasks]_vars

\* the order A1 < A2 < B1 < B2 < C1 < C2 as the specification states it
LevelRank == [A1 |-> 1, A2 |-> 2, B1 |-> 3, B2 |-> 4, C1 |-> 5, C2 |-> 6]

\* the level itself, the one immediately below and the one immediately above
EligibleLevels(level) ==
    { m \in DOMAIN LevelRank :
        /\ LevelRank[m] >= LevelRank[level] - 1
        /\ LevelRank[m] <= LevelRank[level] + 1 }

\* the published tasks of the table whose level is eligible for `level`
EligiblePool(level) ==
    { t \in tasks : t.status = "published" /\ t.level \in EligibleLevels(level) }

ByLevelDone == call.op = "get_tasks_by_level"

\* C7: for each of the six levels L the levels get_tasks_by_level(L) filters
\* by are exactly L, the level immediately below (unless L is A1) and the
\* level immediately above (unless L is C2): never fewer than 1, never more
\* than 3 (A1 gives {A1, A2}, C2 gives {C1, C2}, B1 gives {A2, B1, B2}).
C7_ValidLevelsAreAdjacent ==
    (ByLevelDone /\ call.level \in DOMAIN LevelRank) =>
        /\ ret.kind = "return"
        /\ Range(ret.valid_levels) = EligibleLevels(call.level)
        /\ Cardinality(Range(ret.valid_levels)) \in 1 .. 3

\* get_tasks_by_level("A2") has filtered by A1, A2 and B1
C7_Witness ==
    /\ ByLevelDone
    /\ call.level = "A2"
    /\ ret.kind = "return"
    /\ Range(ret.valid_levels) = {"A1", "A2", "B1"}

\* C8: get_tasks_by_level raises TaskDeliveryError for every level string
\* that is not one of A1, A2, B1, B2, C1, C2, and returns no task list.
C8_InvalidLevelRaises ==
    (ByLevelDone /\ call.level \notin DOMAIN LevelRank) =>
        ret = Raise("TaskDeliveryError")

\* get_tasks_by_level("Z9") has raised while a published task is stored
C8_Witness ==
    /\ ByLevelDone
    /\ call.level = "Z9"
    /\ \E t \in tasks : t.status = "published"
    /\ ret.kind = "raise"

\* C9: for every stored set of tasks and every valid level L,
\* get_tasks_by_level(L) returns exactly the tasks that are published and
\* whose level is L or adjacent to L; a draft task or a task two or more
\* levels away is never returned.
C9_ReturnsExactlyEligiblePublished ==
    (ByLevelDone /\ call.level \in DOMAIN LevelRank) =>
        /\ ret.kind = "return"
        /\ ret.value = EligiblePool(call.level)

\* a learner level C1 with a published A1 task and a published B2 task
\* stored: the B2 task is returned and the A1 task is not
C9_Witness ==
    /\ ByLevelDone
    /\ call.level = "C1"
    /\ \E a, b \in tasks :
          /\ a.level = "A1" /\ a.status = "published"
          /\ b.level = "B2" /\ b.status = "published"
          /\ ret.kind = "return"
          /\ ret.value = {b}

SelectDone == call.op = "select_task_for_user"

HasValidLevel(user_id) ==
    /\ user_id \in DOMAIN users
    /\ users[user_id].current_level \in DOMAIN LevelRank

\* C10: for a learner with a valid current level, select_task_for_user
\* returns None when no published task exists in the learner's eligible
\* levels, and otherwise returns a stored task that is published and whose
\* level is in the learner's eligible levels; it raises in neither case.
C10_SelectsFromEligiblePoolOrNone ==
    (SelectDone /\ HasValidLevel(call.user_id)) =>
        LET pool == EligiblePool(users[call.user_id].current_level)
        IN  /\ ret.kind = "return"
            /\ pool = {} => ret.value = None
            /\ pool # {} => ret.value \in pool

\* a task has been selected for a learner while the table also holds a
\* task that is not eligible for that learner
C10_Witness ==
    /\ SelectDone
    /\ HasValidLevel(call.user_id)
    /\ ret.kind = "return"
    /\ ret.value \in tasks
    /\ tasks \ EligiblePool(users[call.user_id].current_level) # {}


(***************************************************************************)
(* services/assessment.py on the assessments table.  Every operator takes  *)
(* the table and returns the outcome together with the table after the     *)
(* commit; an uncommitted change is lost with the session.                 *)
(***************************************************************************)
MaxAssessments == 2     \* rows the assessments table may hold
MaxRacing == 3          \* the same, where two processes race
MaxServed == 1          \* the same, where the service is called directly
MaxTime == 2            \* readings of the clock
MaxSubmissions == 3     \* calls of complete_task

IN_PROGRESS == "in_progress"
COMPLETED == "completed"
ABANDONED == "abandoned"

\* the outcome r of a service call and the assessments table it leaves
Outcome(r, db_assessments) == [ret |-> r, assessments |-> db_assessments]

\* CHECK constraint check_score_non_negative
check_score_non_negative(row) == row.score.num >= 0

\* CHECK constraint check_valid_level
check_valid_level(row) ==
    row.resulting_level = NULL \/ row.resulting_level \in Range(LEVEL_ORDER)

\* CHECK constraint check_completed_at_consistency
check_completed_at_consistency(row) ==
    \/ row.status = COMPLETED /\ row.completed_at # NULL
    \/ row.status # COMPLETED /\ row.completed_at = NULL

\* the constraints of the assessments table: the Alembic migrations create
\* the first two only, metadata.create_all creates all three
ConstraintsHold(db_schema, row) ==
    /\ check_score_non_negative(row)
    /\ check_valid_level(row)
    /\ db_schema = "create_all" => check_completed_at_consistency(row)

\* db.commit() of one changed or added row
Commit(db_schema, db_assessments, id, row, result) ==
    IF ConstraintsHold(db_schema, row)
    THEN Outcome(Return(result), Put(db_assessments, id, row))
    ELSE Outcome(Raise("IntegrityError"), db_assessments)

\* the id of the n-th assessment created (a fresh uuid4, as a string)
AssessmentId(n) == "a" \o ToString(n)

\* the value datetime.now gives at clock reading time
Timestamp(time) == "t" \o ToString(time)

\* all orderings of the elements of a finite set
RECURSIVE Shuffles(_)
Shuffles(S) ==
    IF S = {} THEN { << >> }
    ELSE UNION { { <<x>> \o rest : rest \in Shuffles(S \ {x}) } : x \in S }

questions_per_level == 2     \* max(2, 15 // 6)

\* variant of RandomLimit without the limit
RandomLimitless(level, db_questions) ==
    { { q \in db_questions : q.level = level } }

\* the rows .order_by(func.random()).limit(questions_per_level) may return
\* for one level
RandomLimit(level, db_questions) ==
    LET at_level == { q \in db_questions : q.level = level }
    IN  { S \in SUBSET at_level :
            Cardinality(S) =
                IF Cardinality(at_level) < questions_per_level
                THEN Cardinality(at_level) ELSE questions_per_level }

num_questions == 15          \* default of _select_assessment_questions

\* the loop over the levels: the sets of ids it may have collected
RECURSIVE SelectLoop(_, _, _)
SelectLoop(i, selected_question_ids, db_questions) ==
    IF i > Len(LEVEL_ORDER) THEN { selected_question_ids }
    ELSE UNION { SelectLoop(i + 1,
                            selected_question_ids \cup { q.id : q \in S },
                            db_questions) :
                   S \in RandomLimit(LEVEL_ORDER[i], db_questions) }

\* the question id lists _select_assessment_questions may return: the
\* collected ids, shuffled, cut to num_questions
_select_assessment_questions(db_questions) ==
    { IF Len(ids) > num_questions THEN SubSeq(ids, 1, num_questions) ELSE ids :
        ids \in UNION { Shuffles(selected) :
                          selected \in SelectLoop(1, {}, db_questions) } }

\* start_assessment with the question ids already chosen
start_assessment(user_id, question_ids, db_schema, db_assessments) ==
    LET id == AssessmentId(Cardinality(DOMAIN db_assessments) + 1)
        assessment == [user_id |-> user_id,
                       questions |-> question_ids,
                       answers |-> << >>,
                       score |-> [num |-> 0, den |-> 1],
                       resulting_level |-> NULL,
                       status |-> IN_PROGRESS,
                       completed_at |-> NULL]
    IN  Commit(db_schema, db_assessments, id, assessment, id)

\* complete_assessment: whatever the status of the row, store the answers,
\* the score and the level, mark it completed and stamp it
complete_assessment(assessment_id, answers, score, level, time, db_schema, db_assessments) ==
    IF assessment_id \notin DOMAIN db_assessments
    THEN Outcome(Raise("AssessmentError"), db_assessments)
    ELSE Commit(db_schema, db_assessments, assessment_id,
                [db_assessments[assessment_id] EXCEPT
                    !.answers = answers, !.score = score,
                    !.resulting_level = level, !.status = COMPLETED,
                    !.completed_at = Timestamp(time)],
                assessment_id)

\* variant of abandon_assessment that also stamps the row
abandon_assessment_stamped(assessment_id, time, db_schema, db_assessments) ==
    IF assessment_id \notin DOMAIN db_assessments
    THEN Outcome(Raise("AssessmentError"), db_assessments)
    ELSE Commit(db_schema, db_assessments, assessment_id,
                [db_assessments[assessment_id] EXCEPT
                    !.status = ABANDONED,
                    !.completed_at = Timestamp(time)],
                assessment_id)

\* abandon_assessment: whatever the status of the row, mark it abandoned;
\* completed_at is left as it is
abandon_assessment(assessment_id, time, db_schema, db_assessments) ==
    IF assessment_id \notin DOMAIN db_assessments
    THEN Outcome(Raise("AssessmentError"), db_assessments)
    ELSE Commit(db_schema, db_assessments, assessment_id,
                [db_assessments[assessment_id] EXCEPT !.status = ABANDONED],
                assessment_id)

\* variant of get_assessment_questions that looks up the first id only
get_assessment_questions_first(question_ids, db_questions) ==
    LET found == { q \in db_questions :
                     question_ids # << >> /\ q.id = question_ids[1] }
    IN  { [i \in DOMAIN ids |->
             LET q == CHOOSE x \in found : x.id = ids[i]
             IN  [id |-> q.id, correct_answer |-> q.correct_answer,
                  weight |-> q.weight]] :
          ids \in Shuffles({ q.id : q \in found }) }

\* get_assessment_questions: the question dictionaries of the ids still in
\* the assessment_questions table, in some order
get_assessment_questions(question_ids, db_questions) ==
    LET found == { q \in db_questions : InList(q.id, question_ids) }
    IN  { [i \in DOMAIN ids |->
             LET q == CHOOSE x \in found : x.id = ids[i]
             IN  [id |-> q.id, correct_answer |-> q.correct_answer,
                  weight |-> q.weight]] :
          ids \in Shuffles({ q.id : q \in found }) }

(***************************************************************************)
(* api/bot/handlers/assessment.py.  A handler works on a world: the tables *)
(* it writes, the user_data of its chat, the clock and the last message it *)
(* sent.  Each operator returns the set of worlds the handler may leave: a *)
(* Telegram call may fail, and the exception ends the handler where it is. *)
(***************************************************************************)
World(db_assessments, db_users, db_progress, ud, time) ==
    [assessments |-> db_assessments, users |-> db_users,
     progress |-> db_progress, user_data |-> ud, now |-> time,
     reply |-> NULL]

\* the handler sent the message text
Replied(w, text) == [w EXCEPT !.reply = text]

\* a Telegram call raised; the handler ends with what it has done so far
TelegramError(w) == [w EXCEPT !.reply = "telegram_error"]

\* the user's assessments that are in progress
InProgressOf(user_id, db_assessments) ==
    { id \in DOMAIN db_assessments :
        /\ db_assessments[id].user_id = user_id
        /\ db_assessments[id].status = IN_PROGRESS }

\* context.user_data.pop of both assessment keys
PopAssessmentKeys(ud) ==
    Pop(Pop(ud, "current_assessment_id"), "current_question_index")

\* variant of SetAnswer that files the entry under the text of the option
SetAnswerUnderOption(answers, question_id, answer_index) ==
    [k \in DOMAIN answers \cup {ToString(answer_index)} |->
        IF k = ToString(answer_index) THEN answer_index ELSE answers[k]]

\* variant of SetAnswer that starts from an empty dictionary
SetAnswerAlone(answers, question_id, answer_index) ==
    [k \in {question_id} |-> answer_index]

\* answers[question_id] = answer_index on a copy of the stored answers
SetAnswer(answers, question_id, answer_index) ==
    [k \in DOMAIN answers \cup {question_id} |->
        IF k = question_id THEN answer_index ELSE answers[k]]

\* complete_and_deliver_result; the clock stops at MaxTime
\* variant of complete_and_deliver_result that writes the level without the
\* completed row being stored
complete_and_deliver_result_unstored(assessment_id, w, db_questions, db_schema) ==
    IF assessment_id \notin DOMAIN w.assessments
    THEN { Replied(w, "assessment_not_found"), TelegramError(w) }
    ELSE
    LET assessment == w.assessments[assessment_id]
        answers == assessment.answers
    IN  UNION {
          LET score == calculate_score(questions, answers)
              level == determine_level(score.value)
          IN  IF level.kind = "raise" THEN { Replied(w, "AssessmentError") }
              ELSE IF w.now >= MaxTime THEN {}
              ELSE
              LET done == complete_assessment(assessment_id, answers,
                              score.value, level.value, w.now, db_schema,
                              w.assessments)
                  stamped == [w EXCEPT !.now = w.now + 1]
              IN  IF done.ret.kind = "raise"
                  THEN { Replied(stamped, done.ret.value) }
                  ELSE
                  LET stored == [stamped EXCEPT
                                   !.assessments = w.assessments,
                                   !.users =
                                      IF assessment.user_id \in DOMAIN w.users
                                      THEN [w.users EXCEPT
                                              ![assessment.user_id]
                                                 .current_level = level.value]
                                      ELSE w.users]
                  IN  { TelegramError(stored),
                        [stored EXCEPT
                           !.reply = "result",
                           !.user_data = PopAssessmentKeys(stored.user_data)] }
          : questions \in get_assessment_questions(assessment.questions,
                                                   db_questions) }

complete_and_deliver_result(assessment_id, w, db_questions, db_schema) ==
    IF assessment_id \notin DOMAIN w.assessments
    THEN { Replied(w, "assessment_not_found"), TelegramError(w) }
    ELSE
    LET assessment == w.assessments[assessment_id]
        answers == assessment.answers
    IN  UNION {
          LET score == calculate_score(questions, answers)
              level == determine_level(score.value)
          IN  IF level.kind = "raise" THEN { Replied(w, "AssessmentError") }
              ELSE IF w.now >= MaxTime THEN {}
              ELSE
              LET done == complete_assessment(assessment_id, answers,
                              score.value, level.value, w.now, db_schema,
                              w.assessments)
                  stamped == [w EXCEPT !.now = w.now + 1]
              IN  IF done.ret.kind = "raise"
                  THEN { Replied(stamped, done.ret.value) }
                  ELSE
                  LET stored == [stamped EXCEPT
                                   !.assessments = done.assessments,
                                   !.users =
                                      IF assessment.user_id \in DOMAIN w.users
                                      THEN [w.users EXCEPT
                                              ![assessment.user_id]
                                                 .current_level = level.value]
                                      ELSE w.users]
                  IN  { TelegramError(stored),
                        [stored EXCEPT
                           !.reply = "result",
                           !.user_data = PopAssessmentKeys(stored.user_data)] }
          : questions \in get_assessment_questions(assessment.questions,
                                                   db_questions) }

\* the header of the message that carries a question:
\* Question {current_question_index + 1}/{total_questions}
QuestionMessage(current_question_index, total_questions) ==
    "question " \o ToString(current_question_index + 1) \o "/"
        \o ToString(total_questions)

\* variant of send_assessment_question that reports a missing question when
\* the index is past the last question
send_assessment_question_not_completing(assessment_id, w, db_questions, db_schema) ==
    IF assessment_id \notin DOMAIN w.assessments
    THEN { Replied(w, "assessment_not_found"), TelegramError(w) }
    ELSE
    LET question_ids == w.assessments[assessment_id].questions
        current_question_index ==
            Get(w.user_data, "current_question_index", 0)
    IN  IF current_question_index >= Len(question_ids)
        THEN { Replied(w, "question_not_found"), TelegramError(w) }
        ELSE { IF \E q \in db_questions :
                     q.id = question_ids[current_question_index + 1]
               THEN Replied(w, QuestionMessage(current_question_index,
                                             Len(question_ids)))
               ELSE Replied(w, "question_not_found"),
               TelegramError(w) }

\* variant of send_assessment_question that always sends the first question
send_assessment_question_first(assessment_id, w, db_questions, db_schema) ==
    IF assessment_id \notin DOMAIN w.assessments
    THEN { Replied(w, "assessment_not_found"), TelegramError(w) }
    ELSE
    LET question_ids == w.assessments[assessment_id].questions
        current_question_index == 0
    IN  IF current_question_index >= Len(question_ids)
        THEN complete_and_deliver_result(assessment_id, w, db_questions,
                                         db_schema)
        ELSE { IF \E q \in db_questions :
                     q.id = question_ids[current_question_index + 1]
               THEN Replied(w, QuestionMessage(current_question_index,
                                             Len(question_ids)))
               ELSE Replied(w, "question_not_found"),
               TelegramError(w) }

\* send_assessment_question
send_assessment_question(assessment_id, w, db_questions, db_schema) ==
    IF assessment_id \notin DOMAIN w.assessments
    THEN { Replied(w, "assessment_not_found"), TelegramError(w) }
    ELSE
    LET question_ids == w.assessments[assessment_id].questions
        current_question_index ==
            Get(w.user_data, "current_question_index", 0)
    IN  IF current_question_index >= Len(question_ids)
        THEN complete_and_deliver_result(assessment_id, w, db_questions,
                                         db_schema)
        ELSE { IF \E q \in db_questions :
                     q.id = question_ids[current_question_index + 1]
               THEN Replied(w, QuestionMessage(current_question_index,
                                             Len(question_ids)))
               ELSE Replied(w, "question_not_found"),
               TelegramError(w) }

\* variant of AssessmentActive that accepts an assessment of any status
AssessmentFound(assessment_id, db_assessments) ==
    assessment_id \in DOMAIN db_assessments

\* handle_assessment_answer, line 220, negated: the assessment exists and is
\* in progress
AssessmentActive(assessment_id, db_assessments) ==
    /\ assessment_id \in DOMAIN db_assessments
    /\ db_assessments[assessment_id].status = IN_PROGRESS

\* handle_assessment_answer for the callback data
\* answer_{question_index}_{answer_index} in chat c
handle_assessment_answer(c, question_index, answer_index, w, db_questions, db_schema) ==
    LET assessment_id == Get(w.user_data, "current_assessment_id", NULL)
    IN  { TelegramError(w) } \cup
        IF c \notin DOMAIN w.users THEN { Replied(w, "user_not_found") }
        ELSE IF assessment_id = NULL
        THEN { Replied(w, "no_active_assessment") }
        ELSE IF ~AssessmentActive(assessment_id, w.assessments)
        THEN { Replied(w, "assessment_not_active") }
        ELSE
        LET assessment == w.assessments[assessment_id]
            question_ids == assessment.questions
        IN  IF question_index >= Len(question_ids)
            THEN { Replied(w, "invalid_question_index") }
            ELSE
            LET saved == Commit(db_schema, w.assessments, assessment_id,
                            [assessment EXCEPT !.answers =
                                SetAnswer(assessment.answers,
                                          question_ids[question_index + 1],
                                          answer_index)],
                            assessment_id)
                w1 == [w EXCEPT
                         !.assessments = saved.assessments,
                         !.user_data =
                             Put(w.user_data, "current_question_index",
                                 question_index + 1)]
            IN  IF saved.ret.kind = "raise"
                THEN { Replied(w, saved.ret.value) }
                ELSE IF question_index + 1 < Len(question_ids)
                THEN { TelegramError(w1) } \cup send_assessment_question(
                         assessment_id, w1, db_questions, db_schema)
                ELSE { TelegramError(w1) } \cup complete_and_deliver_result(
                         assessment_id, w1, db_questions, db_schema)

\* assess_command from start_assessment on
assess_start(c, w, db_questions, db_schema) ==
         UNION {
           LET started == start_assessment(c, question_ids, db_schema,
                                           w.assessments)
               w1 == [w EXCEPT
                        !.assessments = started.assessments,
                        !.user_data =
                            Put(w.user_data, "current_assessment_id",
                                started.ret.value)]
           IN  IF started.ret.kind = "raise"
               THEN { Replied(w, started.ret.value) }
               ELSE { TelegramError(w1) } \cup send_assessment_question(
                        started.ret.value, w1, db_questions, db_schema)
         : question_ids \in _select_assessment_questions(db_questions) }

\* assess_command from the abandoning of the assessment the lookup found
\* (existing, NULL when it found none) on
assess_abandon(existing, w, db_schema) ==
    IF existing = NULL THEN { w }
    ELSE LET abandoned == abandon_assessment(existing, w.now, db_schema,
                                             w.assessments)
         IN  IF abandoned.ret.kind = "raise"
             THEN { Replied(w, abandoned.ret.value) }
             ELSE { [w EXCEPT
                       !.assessments = abandoned.assessments,
                       !.user_data = PopAssessmentKeys(w.user_data)] }

\* what the lookup of an assessment in progress may return: .first() of an
\* unordered query
existing_assessment(user_id, db_assessments) ==
    IF InProgressOf(user_id, db_assessments) = {} THEN { NULL }
    ELSE InProgressOf(user_id, db_assessments)

\* assess_command in chat c, whose lookup of an assessment in progress
\* returns existing
assess_command(c, existing, w, db_questions, db_schema) ==
    IF c \notin DOMAIN w.users
    THEN { Replied(w, "start_first"), TelegramError(w) }
    ELSE UNION { IF w1.reply # NULL THEN { w1 }
                 ELSE assess_start(c, w1, db_questions, db_schema)
               : w1 \in assess_abandon(existing, w, db_schema) }

\* start_command in chat c
start_command(c, existing, w, db_questions, db_schema) ==
    LET w1 == IF c \in DOMAIN w.users THEN w
              ELSE [w EXCEPT !.users = Put(w.users, c,
                                           [current_level |-> NULL])]
    IN  { TelegramError(w1) }
        \cup assess_command(c, existing, w1, db_questions, db_schema)

(***************************************************************************)
(* Specification Spec: one bot process (api/bot.py builds the application  *)
(* with its default sequential processing of updates, so a handler runs to *)
(* its end before the next update is taken) serving /start, /assess and    *)
(* the answer buttons, on a database holding some assessment questions.    *)
(***************************************************************************)
\* the assessment questions the database may hold; weights in halves
AssessmentQuestionInputs ==
    { [id |-> "q1", level |-> "A1", correct_answer |-> 0, weight |-> 1],
      [id |-> "q2", level |-> "B1", correct_answer |-> 1, weight |-> 3] }

\* answer_index values a button may carry: each question is sent with two
\* buttons
Buttons == {0, 1}

\* question_index values a button may carry: every position of the longest
\* question list, and one beyond
QuestionIndexInputs == 0 .. Cardinality(AssessmentQuestionInputs)

InitBot ==
    /\ tasks = {}
    /\ users = << >>
    /\ call = [op |-> "none"]
    /\ ret = NoRet
    /\ assessment_questions \in SUBSET AssessmentQuestionInputs
    /\ assessments = << >>
    /\ task_questions = {}
    /\ progress = {}
    /\ user_data = [p \in Procs |-> [c \in Chats |-> EmptyUserData]]
    /\ procs = [p \in Procs |-> Idle]
    /\ schema \in {"alembic", "create_all"}
    /\ now = 0

\* the world process p sees when it takes an update of chat c
WorldOf(p, c) == World(assessments, users, progress, user_data[p][c], now)

\* process p, serving chat c, leaves the world w
Leave(p, c, w) ==
    /\ assessments' = w.assessments
    /\ users' = w.users
    /\ progress' = w.progress
    /\ user_data' = [user_data EXCEPT ![p][c] = w.user_data]
    /\ now' = w.now
    /\ UNCHANGED <<tasks, assessment_questions, task_questions, schema>>

\* process p runs a handler of chat c to its end, leaving one of the worlds
Handle(p, c, worlds) ==
    /\ procs[p].pc = "idle"
    /\ \E w \in worlds :
          /\ Leave(p, c, w)
          /\ ret' = Return(w.reply)
    /\ UNCHANGED procs

\* the handlers that insert an assessment run while the table holds fewer
\* than limit rows
StartCommand(p, c, limit) ==
    \E existing \in existing_assessment(c, assessments) :
        /\ Cardinality(DOMAIN assessments) < limit
        /\ call' = [op |-> "start_command", chat |-> c,
                    existing |-> existing]
        /\ Handle(p, c, start_command(c, existing, WorldOf(p, c),
                                      assessment_questions, schema))

AssessCommand(p, c, limit) ==
    \E existing \in existing_assessment(c, assessments) :
        /\ Cardinality(DOMAIN assessments) < limit
        /\ call' = [op |-> "assess_command", chat |-> c,
                    existing |-> existing]
        /\ Handle(p, c, assess_command(c, existing, WorldOf(p, c),
                                       assessment_questions, schema))

HandleAssessmentAnswer(p, c, question_index, answer_index) ==
    /\ call' = [op |-> "handle_assessment_answer", chat |-> c,
                question_index |-> question_index,
                answer_index |-> answer_index]
    /\ Handle(p, c, handle_assessment_answer(c, question_index, answer_index,
                       WorldOf(p, c), assessment_questions, schema))

Next ==
    \E c \in Chats :
        \/ StartCommand("p1", c, MaxAssessments)
        \/ AssessCommand("p1", c, MaxAssessments)
        \/ \E question_index \in QuestionIndexInputs, answer_index \in Buttons :
              HandleAssessmentAnswer("p1", c, question_index, answer_index)

Spec == InitBot /\ [][Next]_vars

(***************************************************************************)
(* Specification SpecConcurrent: two bot processes on one database, each   *)
(* with its own user_data, serving the /assess commands of the same        *)
(* registered users.  assess_command is three steps, one per database      *)
(* round trip: the lookup of an assessment in progress, the commit that    *)
(* abandons it, the commit that inserts the new assessment (followed by    *)
(* the sending of the first question).                                     *)
(***************************************************************************)
InitConcurrent ==
    /\ tasks = {}
    /\ users = [c \in Chats |-> [current_level |-> NULL]]
    /\ call = [op |-> "none"]
    /\ ret = NoRet
    /\ assessment_questions = AssessmentQuestionInputs
    /\ assessments = << >>
    /\ task_questions = {}
    /\ progress = {}
    /\ user_data = [p \in Procs |-> [c \in Chats |-> EmptyUserData]]
    /\ procs = [p \in Procs |-> Idle]
    /\ schema \in {"alembic", "create_all"}
    /\ now = 0

\* assess_command, lines 48-62: the user and the assessment in progress are
\* looked up
AssessLookup(p, c) ==
    /\ procs[p].pc = "idle"
    /\ c \in DOMAIN users
    /\ \E existing \in existing_assessment(c, assessments) :
          procs' = [procs EXCEPT ![p] = [pc |-> "abandon", chat |-> c,
                                         existing |-> existing]]
    /\ UNCHANGED <<tasks, users, call, ret, assessment_questions, assessments,
                   task_questions, progress, user_data, schema, now>>

\* assess_command, lines 64-74: the assessment found is abandoned
AssessAbandon(p) ==
    /\ procs[p].pc = "abandon"
    /\ \E w \in assess_abandon(procs[p].existing,
                               WorldOf(p, procs[p].chat), schema) :
          /\ Leave(p, procs[p].chat, w)
          /\ IF w.reply # NULL
             THEN /\ procs' = [procs EXCEPT ![p] = Idle]
                  /\ call' = [op |-> "assess_command",
                              chat |-> procs[p].chat,
                              existing |-> procs[p].existing]
                  /\ ret' = Return(w.reply)
             ELSE /\ procs' = [procs EXCEPT ![p].pc = "start"]
                  /\ UNCHANGED <<call, ret>>

\* assess_command, lines 76-98: the new assessment is inserted and its
\* first question sent
AssessStart(p) ==
    /\ procs[p].pc = "start"
    /\ Cardinality(DOMAIN assessments) < MaxRacing
    /\ \E w \in assess_start(procs[p].chat, WorldOf(p, procs[p].chat),
                             assessment_questions, schema) :
          /\ Leave(p, procs[p].chat, w)
          /\ ret' = Return(w.reply)
    /\ procs' = [procs EXCEPT ![p] = Idle]
    /\ call' = [op |-> "assess_command", chat |-> procs[p].chat,
                existing |-> procs[p].existing]

NextConcurrent ==
    \E p \in Procs :
        \/ \E c \in Chats : AssessLookup(p, c)
        \/ AssessAbandon(p)
        \/ AssessStart(p)

SpecConcurrent == InitConcurrent /\ [][NextConcurrent]_vars

\* the step is the last of a run of assess_command by process p, whose
\* lookup found an assessment in progress
AssessWhileInProgress(p) ==
    /\ procs[p].pc = "start"
    /\ procs'[p].pc = "idle"
    /\ procs[p].existing # NULL

\* the assessments the step created
Created == DOMAIN assessments' \ DOMAIN assessments

\* C11: assess_command, run while the learner has an assessment in progress,
\* sets the old assessment to abandoned and creates a new one, and
\* afterwards the learner has exactly one assessment in progress, the new
\* one.
C11_ExactlyOneInProgressAfterRestart ==
    [][\A p \in Procs : AssessWhileInProgress(p) =>
          /\ assessments'[procs[p].existing].status = ABANDONED
          /\ \E new \in Created :
                /\ Created = {new}
                /\ InProgressOf(procs[p].chat, assessments') = {new}]_vars

\* C12: under any interleaving of start operations, two concurrent runs of
\* assess_command for the same learner included, a learner has at most one
\* assessment in progress.
C12_AtMostOneInProgress ==
    \A c \in Chats : Cardinality(InProgressOf(c, assessments)) <= 1

(***************************************************************************)
(* Specification SpecService: the bot of Spec with its users registered,   *)
(* and besides it any caller of the assessment service (as                 *)
(* tests/integration/test_assessment_flow.py is): start_assessment,        *)
(* complete_assessment and abandon_assessment called directly, in any      *)
(* order, on any assessment.                                               *)
(***************************************************************************)
\* assessment ids a caller may pass: every id in use, and the next, unused
AssessmentIdInputs == { AssessmentId(n) : n \in 1 .. MaxServed + 1 }

\* answer maps a caller may pass to complete_assessment: none answered,
\* every question of the bank answered correctly
CompleteAnswerInputs ==
    { << >>, [id \in { q.id : q \in AssessmentQuestionInputs } |->
                (CHOOSE q \in AssessmentQuestionInputs : q.id = id)
                    .correct_answer] }

\* a service call leaves the assessments table of its outcome
ServiceCall(out) ==
    /\ \A p \in Procs : procs[p].pc = "idle"
    /\ assessments' = out.assessments
    /\ ret' = out.ret
    /\ UNCHANGED <<tasks, users, assessment_questions, task_questions,
                   progress, user_data, procs, schema>>

\* service.start_assessment(user.id, db)
StartAssessment(user_id) ==
    /\ user_id \in DOMAIN users
    /\ Cardinality(DOMAIN assessments) < MaxServed
    /\ call' = [op |-> "start_assessment", user_id |-> user_id]
    /\ \E question_ids \in _select_assessment_questions(assessment_questions) :
          ServiceCall(start_assessment(user_id, question_ids, schema,
                                       assessments))
    /\ UNCHANGED now

\* service.complete_assessment(assessment_id, answers, score, level, db),
\* the caller having computed score and level from the answers it passes
CompleteAssessment(assessment_id, answers) ==
    /\ now < MaxTime
    /\ call' = [op |-> "complete_assessment",
                assessment_id |-> assessment_id]
    /\ \E questions \in get_assessment_questions(
                            IF assessment_id \in DOMAIN assessments
                            THEN assessments[assessment_id].questions
                            ELSE << >>, assessment_questions) :
          LET score == calculate_score(questions, answers)
              level == determine_level(score.value)
          IN  ServiceCall(complete_assessment(assessment_id, answers,
                              score.value, level.value, now, schema,
                              assessments))
    /\ now' = now + 1

\* service.abandon_assessment(assessment_id, db)
AbandonAssessment(assessment_id) ==
    /\ call' = [op |-> "abandon_assessment", assessment_id |-> assessment_id]
    /\ ServiceCall(abandon_assessment(assessment_id, now, schema,
                                      assessments))
    /\ UNCHANGED now

NextService ==
    \/ \E c \in Chats :
          \/ StartCommand("p1", c, MaxServed)
          \/ AssessCommand("p1", c, MaxServed)
          \/ \E question_index \in QuestionIndexInputs,
                answer_index \in Buttons :
                HandleAssessmentAnswer("p1", c, question_index, answer_index)
    \/ \E user_id \in Chats : StartAssessment(user_id)
    \/ \E assessment_id \in AssessmentIdInputs :
          \/ \E answers \in CompleteAnswerInputs :
                CompleteAssessment(assessment_id, answers)
          \/ AbandonAssessment(assessment_id)

SpecService == InitConcurrent /\ [][NextService]_vars

\* C13: in every state reachable by start_assessment, answer recording,
\* complete_assessment and abandon_assessment calls, each assessment has
\* completed_at set if and only if its status is completed.
C13_CompletedAtIffCompleted ==
    \A id \in DOMAIN assessments :
        assessments[id].completed_at # NULL
            <=> assessments[id].status = COMPLETED

\* C14: completed and abandoned are terminal: once the status of an
\* assessment is completed or abandoned, no operation changes it again.
C14_TerminalStatuses ==
    [][\A id \in DOMAIN assessments :
          assessments[id].status \in {COMPLETED, ABANDONED} =>
              assessments'[id].status = assessments[id].status]_vars

\* the step is a call of complete_assessment on an assessment that exists
\* and is not in progress
CompleteNotInProgress ==
    /\ call'.op = "complete_assessment"
    /\ call'.assessment_id \in DOMAIN assessments
    /\ assessments[call'.assessment_id].status # IN_PROGRESS

\* C15: complete_assessment on an assessment whose status is not
\* in_progress fails with an error and leaves the assessment and the
\* learner's current_level as they were.
C15_CompleteOnlyInProgress ==
    [][CompleteNotInProgress =>
          /\ ret'.kind = "raise"
          /\ assessments'[call'.assessment_id]
                = assessments[call'.assessment_id]
          /\ users' = users]_vars

\* the assessment id in the user_data of chat c in process p, or NULL
CurrentAssessment(p, c) == Get(user_data[p][c], "current_assessment_id", NULL)

\* the step is a run of handle_assessment_answer in a chat of a registered
\* user whose user_data names an assessment that is missing or not in
\* progress
AnswerNotInProgress ==
    /\ call'.op = "handle_assessment_answer"
    /\ call'.chat \in DOMAIN users
    /\ CurrentAssessment("p1", call'.chat) # NULL
    /\ \/ CurrentAssessment("p1", call'.chat) \notin DOMAIN assessments
       \/ assessments[CurrentAssessment("p1", call'.chat)].status
             # IN_PROGRESS

\* C16: handle_assessment_answer against an assessment that is missing or
\* not in progress is rejected: the assessment (its answers, status and
\* score) and the current question index of the context stay as they were,
\* and neither the next question nor the result of a completion is sent.
C16_AnswerRejectedUnlessInProgress ==
    [][AnswerNotInProgress =>
          /\ assessments' = assessments
          /\ user_data' = user_data
          /\ users' = users
          /\ ret'.value \in {"assessment_not_active", "telegram_error"}]_vars

\* an answer was rejected because the chat's assessment is abandoned, or
\* completed, and the assessment still has no answer
C16_Witness ==
    /\ call.op = "handle_assessment_answer"
    /\ ret = Return("assessment_not_active")
    /\ CurrentAssessment("p1", call.chat) \in DOMAIN assessments
    /\ assessments[CurrentAssessment("p1", call.chat)].status = ABANDONED
    /\ assessments[CurrentAssessment("p1", call.chat)].answers = << >>

\* the step is a call of abandon_assessment on an assessment in progress
AbandonInProgress ==
    /\ call'.op = "abandon_assessment"
    /\ call'.assessment_id \in DOMAIN assessments
    /\ assessments[call'.assessment_id].status = IN_PROGRESS

ProgressOutcome(r, db_progress) == [ret |-> r, progress |-> db_progress]

\* the questions of the task as .order_by(Question.order).all() may return
\* them
questions_by_order(task_id, db_questions) ==
    LET of_task == { q \in db_questions : q.task_id = task_id }
    IN  { qs \in [1 .. Cardinality(of_task) -> of_task] :
            /\ \A i, j \in DOMAIN qs : i # j => qs[i] # qs[j]
            /\ \A i, j \in DOMAIN qs : i < j => qs[i].order <= qs[j].order }

\* the loop of complete_task over the questions, from position i on
RECURSIVE CompletionLoop(_, _, _, _, _)
CompletionLoop(questions, answers, i, total_weight, correct_weight) ==
    IF i > Len(questions)
    THEN [total_weight |-> total_weight, correct_weight |-> correct_weight]
    ELSE LET question == questions[i]
             question_id_str == question.id
         IN  CompletionLoop(questions, answers, i + 1,
                 total_weight + question.weight,
                 IF /\ question_id_str \in DOMAIN answers
                    /\ answers[question_id_str] = question.correct_answer
                 THEN correct_weight + question.weight
                 ELSE correct_weight)

\* variant of percentage_correct that leaves out the factor 100
percentage_correct_unscaled(correct_weight, total_weight) ==
    IF total_weight > 0
    THEN [num |-> correct_weight, den |-> total_weight]
    ELSE [num |-> 0, den |-> 1]

\* (correct_weight / total_weight * 100.0) if total_weight > 0 else 0.0
percentage_correct(correct_weight, total_weight) ==
    IF total_weight > 0
    THEN [num |-> 100 * correct_weight, den |-> total_weight]
    ELSE [num |-> 0, den |-> 1]

\* variant of existing_progress that never finds a row
existing_progress_none(user_id, task_id, db_progress) == {}

\* the rows the lookup of the learner's progress on the task may return
existing_progress(user_id, task_id, db_progress) ==
    { r \in db_progress : r.user_id = user_id /\ r.task_id = task_id }

\* the constraints of the progress table: check_score_non_negative,
\* check_percentage_range and the unique index idx_progress_user_task
ProgressConstraintsHold(db_progress) ==
    /\ \A r \in db_progress :
          /\ r.score >= 0
          /\ r.percentage_correct.num >= 0
          /\ r.percentage_correct.num <= 100 * r.percentage_correct.den
    /\ \A r1, r2 \in db_progress :
          (r1.user_id = r2.user_id /\ r1.task_id = r2.task_id) => r1 = r2

\* the id of the n-th progress row created
ProgressId(n) == "p" \o ToString(n)

\* variant of complete_task that accepts a task without questions
complete_task_lenient(user_id, task_id, answers, time, db_users, db_tasks, db_questions, db_progress) ==
    IF user_id \notin DOMAIN db_users
    THEN { ProgressOutcome(Raise("TaskDeliveryError"), db_progress) }
    ELSE IF ~\E t \in db_tasks : t.id = task_id
    THEN { ProgressOutcome(Raise("TaskDeliveryError"), db_progress) }
    ELSE UNION {
      LET acc == CompletionLoop(questions, answers, 1, 0, 0)
          score == acc.correct_weight
          percentage == percentage_correct(acc.correct_weight,
                                           acc.total_weight)
          found == existing_progress(user_id, task_id, db_progress)
          written ==
            IF found # {}
            THEN { (db_progress \ {existing}) \cup
                     {[existing EXCEPT
                         !.answers = answers, !.score = score,
                         !.percentage_correct = percentage,
                         !.completed_at = Timestamp(time)]}
                   : existing \in found }
            ELSE { db_progress \cup
                     {[id |-> ProgressId(Cardinality(db_progress) + 1),
                       user_id |-> user_id, task_id |-> task_id,
                       answers |-> answers, score |-> score,
                       percentage_correct |-> percentage,
                       completed_at |-> Timestamp(time)]} }
      IN  { IF ProgressConstraintsHold(after)
            THEN ProgressOutcome(
                   Return(CHOOSE r \in after :
                            r.user_id = user_id /\ r.task_id = task_id
                            /\ r.completed_at = Timestamp(time)),
                   after)
            ELSE ProgressOutcome(Raise("IntegrityError"), db_progress)
          : after \in written }
      : questions \in questions_by_order(task_id, db_questions) }

\* complete_task
complete_task(user_id, task_id, answers, time, db_users, db_tasks, db_questions, db_progress) ==
    IF user_id \notin DOMAIN db_users
    THEN { ProgressOutcome(Raise("TaskDeliveryError"), db_progress) }
    ELSE IF ~\E t \in db_tasks : t.id = task_id
    THEN { ProgressOutcome(Raise("TaskDeliveryError"), db_progress) }
    ELSE UNION {
      IF questions = << >>
      THEN { ProgressOutcome(Raise("TaskDeliveryError"), db_progress) }
      ELSE
      LET acc == CompletionLoop(questions, answers, 1, 0, 0)
          score == acc.correct_weight
          percentage == percentage_correct(acc.correct_weight,
                                           acc.total_weight)
          found == existing_progress(user_id, task_id, db_progress)
          written ==
            IF found # {}
            THEN { (db_progress \ {existing}) \cup
                     {[existing EXCEPT
                         !.answers = answers, !.score = score,
                         !.percentage_correct = percentage,
                         !.completed_at = Timestamp(time)]}
                   : existing \in found }
            ELSE { db_progress \cup
                     {[id |-> ProgressId(Cardinality(db_progress) + 1),
                       user_id |-> user_id, task_id |-> task_id,
                       answers |-> answers, score |-> score,
                       percentage_correct |-> percentage,
                       completed_at |-> Timestamp(time)]} }
      IN  { IF ProgressConstraintsHold(after)
            THEN ProgressOutcome(
                   Return(CHOOSE r \in after :
                            r.user_id = user_id /\ r.task_id = task_id
                            /\ r.completed_at = Timestamp(time)),
                   after)
            ELSE ProgressOutcome(Raise("IntegrityError"), db_progress)
          : after \in written }
      : questions \in questions_by_order(task_id, db_questions) }

(***************************************************************************)
(* Specification SpecCompletion: complete_task called any number of times  *)
(* (while the clock runs) for two registered users and one that is not,    *)
(* on a task with questions, a task without, and a task that is missing.   *)
(***************************************************************************)
CompletionUsers == {"u1", "u2"}
CompletionUserInputs == CompletionUsers \cup {"u3"}
TaskQuestionIds == {"tq1", "tq2"}

\* the questions task 1 may have: any of tq1 (correct option 0) and tq2
\* (correct option 1), each with the least or the greatest weight
TaskQuestionInputs ==
    { qs \in SUBSET [id : TaskQuestionIds, task_id : {1},
                     correct_answer : {0, 1}, weight : {1, MaxWeight},
                     order : 1 .. 2] :
        /\ \A q1, q2 \in qs : q1.id = q2.id => q1 = q2
        /\ \A q \in qs :
              /\ q.id = "tq1" => (q.order = 1 /\ q.correct_answer = 0)
              /\ q.id = "tq2" => (q.order = 2 /\ q.correct_answer = 1) }

TaskAnswerInputs == UNION { [K -> {0, 1}] : K \in SUBSET TaskQuestionIds }

InitCompletion ==
    /\ tasks = { [id |-> 1, level |-> "A1", status |-> "published"],
                 [id |-> 2, level |-> "A1", status |-> "published"] }
    /\ users = [u \in CompletionUsers |-> [current_level |-> NULL]]
    /\ call = [op |-> "none"]
    /\ ret = NoRet
    /\ assessment_questions = {}
    /\ assessments = << >>
    /\ task_questions \in TaskQuestionInputs
    /\ progress = {}
    /\ user_data = [p \in Procs |-> [c \in Chats |-> EmptyUserData]]
    /\ procs = [p \in Procs |-> Idle]
    /\ schema = "alembic"
    /\ now = 0

\* task_completion_service.complete_task(user_id, task_id, answers, db)
CompleteTask(user_id, task_id, answers) ==
    /\ now < MaxSubmissions
    /\ call' = [op |-> "complete_task", user_id |-> user_id,
                task_id |-> task_id, answers |-> answers]
    /\ \E out \in complete_task(user_id, task_id, answers, now, users, tasks,
                                task_questions, progress) :
          /\ progress' = out.progress
          /\ ret' = out.ret
    /\ now' = now + 1
    /\ UNCHANGED <<tasks, users, assessment_questions, assessments,
                   task_questions, user_data, procs, schema>>

NextCompletion ==
    \/ \E user_id \in CompletionUsers, answers \in TaskAnswerInputs :
          CompleteTask(user_id, 1, answers)
    \/ \E user_id \in CompletionUserInputs \ CompletionUsers :
          CompleteTask(user_id, 1, << >>)
    \/ \E user_id \in CompletionUsers, task_id \in 2 .. 3 :
          CompleteTask(user_id, task_id, << >>)

SpecCompletion == InitCompletion /\ [][NextCompletion]_vars

\* a call of complete_task has returned the record it stored
CompleteTaskReturned == call.op = "complete_task" /\ ret.kind = "return"

\* the record of the learner's progress on the task, if there is one
ProgressOf(user_id, task_id, db_progress) ==
    { r \in db_progress : r.user_id = user_id /\ r.task_id = task_id }

\* a step in which complete_task is called for a registered learner and a
\* task with questions that the learner has completed before
Resubmission ==
    /\ call'.op = "complete_task"
    /\ now' = now + 1
    /\ call'.user_id \in DOMAIN users
    /\ \E q \in task_questions : q.task_id = call'.task_id
    /\ ProgressOf(call'.user_id, call'.task_id, progress) # {}

\* C19: after any sequence of complete_task calls there is at most one
\* Progress record per (learner, task) pair, and completing a task the
\* learner has completed before returns normally, adds no record, keeps the
\* record's identity and overwrites its answers, score, percentage_correct
\* and completed_at with those of the latest submission.
C19_OneProgressPerPair ==
    /\ [](\A r1, r2 \in progress :
            (r1.user_id = r2.user_id /\ r1.task_id = r2.task_id) => r1 = r2)
    /\ [][Resubmission =>
            /\ ret'.kind = "return"
            /\ Cardinality(progress') = Cardinality(progress)
            /\ \A old \in ProgressOf(call'.user_id, call'.task_id, progress) :
                 LET new == [old EXCEPT
                               !.answers = call'.answers,
                               !.score = ret'.value.score,
                               !.percentage_correct =
                                   ret'.value.percentage_correct,
                               !.completed_at = Timestamp(now)]
                 IN  /\ ret'.value = new
                     /\ progress' = (progress \ {old}) \cup {new}]_vars

\* the first record created has been overwritten by the third submission,
\* after a second record was created
C19_Witness ==
    /\ CompleteTaskReturned
    /\ Cardinality(progress) = 2
    /\ ret.value.id = ProgressId(1)
    /\ ret.value.completed_at = Timestamp(2)

\* C20: the record complete_task stores has score = the earned weight (the
\* sum of the weights of the task's questions answered with their correct
\* option, not normalised) and percentage_correct = earned/total * 100 (0 if
\* total is zero), which is 100 times what calculate_score returns for the
\* same questions and answers; score >= 0 and 0 <= percentage_correct <= 100.
C20_ScoreAndPercentage ==
    CompleteTaskReturned =>
        \A questions \in questions_by_order(call.task_id, task_questions) :
            LET row == ret.value
                pct == row.percentage_correct
                earned == EarnedOf(questions, call.answers)
                total == TotalOf(questions)
                fraction == calculate_score(questions, call.answers)
            IN  /\ row \in progress
                /\ row.score = earned
                /\ IF total = 0 THEN pct.num = 0
                   ELSE pct.num * total = 100 * earned * pct.den
                /\ fraction.kind = "return"
                /\ pct.num * fraction.value.den
                     = 100 * fraction.value.num * pct.den
                /\ row.score >= 0
                /\ pct.den > 0
                /\ 0 <= pct.num /\ pct.num <= 100 * pct.den

\* a submission with one of two questions answered correctly has been stored
\* with a score strictly between 0 and the total weight
C20_Witness ==
    /\ CompleteTaskReturned
    /\ ret.value.score > 0
    /\ ret.value.percentage_correct.num
         < 100 * ret.value.percentage_correct.den
    /\ Cardinality(DOMAIN call.answers) = 2

(***************************************************************************)
(* api/bot/handlers/tasks.py, on the worlds of the assessment handlers.    *)
(* The tasks and their questions are read, never written.                  *)
(***************************************************************************)
\* str(task.id)
str(id) == ToString(id)

\* UUID(task_id_str): the ids whose text is task_id_str (none: ValueError)
UUID(task_id_str) == { id \in 0 .. MaxTasks + 1 : str(id) = task_id_str }

\* context.user_data.pop of both task keys
PopTaskKeys(ud) == Pop(Pop(ud, "current_task_id"), "task_answers")

\* variant of task_command that moves the learner to the level of the task
\* it selects
task_command_levelling(c, w, db_tasks, db_questions) ==
    { TelegramError(w) } \cup
    IF c \notin DOMAIN w.users THEN { Replied(w, "start_first") }
    ELSE IF w.users[c].current_level = NULL
    THEN { Replied(w, "assess_first") }
    ELSE UNION {
      IF selected.kind = "raise" THEN { Replied(w, selected.value) }
      ELSE IF selected.value = None THEN { Replied(w, "no_tasks") }
      ELSE
      LET task == selected.value
          w1 == [w EXCEPT !.user_data =
                   Put(Put(w.user_data, "current_task_id", str(task.id)),
                       "task_answers", << >>),
                          !.users[c].current_level = task.level]
      IN  { TelegramError(w1),
            IF \E q \in db_questions : q.task_id = task.id
            THEN Replied(w1, "question")
            ELSE Replied(w1, "task") }
      : selected \in select_task_for_user(c, w.users, db_tasks) }

\* task_command in chat c
task_command(c, w, db_tasks, db_questions) ==
    { TelegramError(w) } \cup
    IF c \notin DOMAIN w.users THEN { Replied(w, "start_first") }
    ELSE IF w.users[c].current_level = NULL
    THEN { Replied(w, "assess_first") }
    ELSE UNION {
      IF selected.kind = "raise" THEN { Replied(w, selected.value) }
      ELSE IF selected.value = None THEN { Replied(w, "no_tasks") }
      ELSE
      LET task == selected.value
          w1 == [w EXCEPT !.user_data =
                   Put(Put(w.user_data, "current_task_id", str(task.id)),
                       "task_answers", << >>)]
      IN  { TelegramError(w1),
            IF \E q \in db_questions : q.task_id = task.id
            THEN Replied(w1, "question")
            ELSE Replied(w1, "task") }
      : selected \in select_task_for_user(c, w.users, db_tasks) }

\* complete_task_and_send_feedback; the clock stops at MaxTime
complete_task_and_send_feedback(user_id, task_id, w, db_tasks, db_questions) ==
    IF w.now >= MaxTime THEN {}
    ELSE
    LET answers == Get(w.user_data, "task_answers", << >>)
        stamped == [w EXCEPT !.now = w.now + 1]
    IN  UNION {
          IF done.ret.kind = "raise"
          THEN { Replied(stamped, "completion_error"), TelegramError(stamped) }
          ELSE
          LET stored == [stamped EXCEPT !.progress = done.progress]
          IN  { [stored EXCEPT
                   !.reply = "feedback",
                   !.user_data = PopTaskKeys(stored.user_data)],
                Replied(stored, "completion_error"),
                TelegramError(stored) }
          : done \in complete_task(user_id, task_id, answers, w.now, w.users,
                                   db_tasks, db_questions, w.progress) }

\* handle_task_answer for the callback data
\* task_answer_{question_id}_{answer_index} in chat c
handle_task_answer(c, question_id_str, answer_index, w, db_tasks, db_questions) ==
    LET task_id_str == Get(w.user_data, "current_task_id", NULL)
    IN  { TelegramError(w) } \cup
        IF c \notin DOMAIN w.users THEN { Replied(w, "user_not_found") }
        ELSE IF task_id_str = NULL THEN { Replied(w, "no_active_task") }
        ELSE IF UUID(task_id_str) = {} THEN { Replied(w, "ValueError") }
        ELSE UNION {
          IF ~\E t \in db_tasks : t.id = task_id
          THEN { Replied(w, "task_not_found") }
          ELSE
          LET w1 == [w EXCEPT !.user_data =
                       Put(w.user_data, "task_answers",
                           Put(Get(w.user_data, "task_answers", << >>),
                               question_id_str, answer_index))]
          IN  UNION {
                LET found == { i \in DOMAIN questions :
                                 questions[i].id = question_id_str }
                IN  IF found = {}
                    THEN { Replied(w1, "question_not_found"),
                           Replied(w1, "error"), TelegramError(w1) }
                    ELSE
                    LET current_question_idx ==
                            CHOOSE i \in found : \A j \in found : i <= j
                    IN  IF current_question_idx < Len(questions)
                        THEN { Replied(w1, "answer_recorded"),
                               Replied(w1, "error"), TelegramError(w1) }
                        ELSE complete_task_and_send_feedback(
                                 c, task_id, w1, db_tasks, db_questions)
                : questions \in questions_by_order(task_id, db_questions) }
          : task_id \in UUID(task_id_str) }

(***************************************************************************)
(* Specification SpecBot: one bot process serving all five handlers of     *)
(* api/bot.py (/start, /assess, the assessment answer buttons, /task and   *)
(* the task answer buttons) on a database holding some assessment          *)
(* questions and one published task with two questions.                    *)
(***************************************************************************)
BotTasks == { [id |-> 1, level |-> "A2", status |-> "published"] }

BotTaskQuestions ==
    { [id |-> "tq1", task_id |-> 1, correct_answer |-> 0, weight |-> 1,
       order |-> 1],
      [id |-> "tq2", task_id |-> 1, correct_answer |-> 1, weight |-> 3,
       order |-> 2] }

\* the button the learner presses: the first one, which is the correct option
\* of q1 and tq1 and a wrong option of q2 and tq2
OptionPressed == {0}

InitBotTasks ==
    /\ tasks = BotTasks
    /\ users = << >>
    /\ call = [op |-> "none"]
    /\ ret = NoRet
    /\ assessment_questions \in { {}, AssessmentQuestionInputs }
    /\ assessments = << >>
    /\ task_questions = BotTaskQuestions
    /\ progress = {}
    /\ user_data = [p \in Procs |-> [c \in Chats |-> EmptyUserData]]
    /\ procs = [p \in Procs |-> Idle]
    /\ schema \in {"alembic", "create_all"}
    /\ now = 0

TaskCommand(p, c) ==
    /\ call' = [op |-> "task_command", chat |-> c]
    /\ Handle(p, c, task_command(c, WorldOf(p, c), tasks, task_questions))

HandleTaskAnswer(p, c, question_id_str, answer_index) ==
    /\ call' = [op |-> "handle_task_answer", chat |-> c]
    /\ Handle(p, c, handle_task_answer(c, question_id_str, answer_index,
                       WorldOf(p, c), tasks, task_questions))

NextBot ==
    \E c \in Chats :
        \/ StartCommand("p1", c, MaxAssessments)
        \/ AssessCommand("p1", c, MaxAssessments)
        \/ \E question_index \in QuestionIndexInputs, answer_index \in OptionPressed :
              HandleAssessmentAnswer("p1", c, question_index, answer_index)
        \/ TaskCommand("p1", c)
        \/ \E question_id_str \in TaskQuestionIds, answer_index \in OptionPressed :
              HandleTaskAnswer("p1", c, question_id_str, answer_index)

SpecBot == InitBotTasks /\ [][NextBot]_vars

\* the assessments of learner u that this step completes with the level
\* result: rows that are completed after the step and were not before it
CompletedInStep(u, result) ==
    { id \in DOMAIN assessments' :
        /\ assessments'[id].user_id = u
        /\ assessments'[id].status = COMPLETED
        /\ assessments'[id].resulting_level = result
        /\ (id \in DOMAIN assessments =>
               assessments[id].status = IN_PROGRESS) }

\* no row of the assessments table becomes completed in this step
NoCompletion ==
    \A id \in DOMAIN assessments' :
        assessments'[id].status = COMPLETED =>
            /\ id \in DOMAIN assessments
            /\ assessments[id].status = COMPLETED

\* current_level of learner u before the step; a learner the step registers
\* had none
LevelBefore(u) ==
    IF u \in DOMAIN users THEN users[u].current_level ELSE NULL

\* C18: a learner's current_level changes only in a step that completes an
\* assessment of that learner, and then to that assessment's resulting
\* level; every step that completes no assessment (starting one, recording
\* an answer, abandoning one, /task and the task answers, the last of which
\* completes the task) leaves every current_level as it was.
C18_LevelChangedOnlyByCompletion ==
    [][/\ DOMAIN users \subseteq DOMAIN users'
       /\ \A u \in DOMAIN users' :
             users'[u].current_level # LevelBefore(u) =>
                 CompletedInStep(u, users'[u].current_level) # {}
       /\ (NoCompletion \/
           call'.op \in {"task_command", "handle_task_answer"}) =>
             \A u \in DOMAIN users' :
                 users'[u].current_level = LevelBefore(u)]_vars

\* a learner has started an assessment, abandoned it by starting another,
\* answered and completed that one, requested a task and completed it: the
\* level is the one the completed assessment resulted in
C18_Witness ==
    /\ call.op = "handle_task_answer"
    /\ ret = Return("feedback")
    /\ progress # {}
    /\ \E u \in DOMAIN users, a1, a2 \in DOMAIN assessments :
          /\ assessments[a1].status = ABANDONED
          /\ assessments[a1].user_id = u
          /\ assessments[a2].status = COMPLETED
          /\ assessments[a2].user_id = u
          /\ assessments[a2].answers # << >>
          /\ users[u].current_level = assessments[a2].resulting_level

(***************************************************************************)
(* api/content/questions.py: the questions of a task under the content     *)
(* API.  A question row keeps id, task_id, answer_options, correct_answer, *)
(* weight and order; the request body of an update is the record of the    *)
(* fields it provides (a field left out is None).                          *)
(***************************************************************************)
\* the outcome r of a request and the questions table it leaves
QuestionOutcome(r, db_questions) == [ret |-> r, questions |-> db_questions]

\* check_weight_positive and check_order_positive
QuestionConstraintsHold(row) == row.weight > 0 /\ row.order > 0

\* POST /tasks/{task_id}/questions; id is the uuid4 the new row gets
create_question(task_id, question_data, id, db_tasks, db_questions) ==
    IF ~\E t \in db_tasks : t.id = task_id
    THEN QuestionOutcome(Raise(404), db_questions)
    ELSE IF Len(question_data.answer_options) = 0
    THEN QuestionOutcome(Raise(400), db_questions)
    ELSE IF question_data.correct_answer < 0
            \/ question_data.correct_answer
                 >= Len(question_data.answer_options)
    THEN QuestionOutcome(Raise(400), db_questions)
    ELSE IF question_data.weight <= 0
    THEN QuestionOutcome(Raise(400), db_questions)
    ELSE IF question_data.order <= 0
    THEN QuestionOutcome(Raise(400), db_questions)
    ELSE LET question == [id |-> id, task_id |-> task_id,
                          answer_options |-> question_data.answer_options,
                          correct_answer |-> question_data.correct_answer,
                          weight |-> question_data.weight,
                          order |-> question_data.order]
         IN  IF QuestionConstraintsHold(question)
             THEN QuestionOutcome(Return(201), db_questions \cup {question})
             ELSE QuestionOutcome(Raise(500), db_questions)

\* PUT /tasks/{task_id}/questions/{question_id}: the fields provided are
\* validated and assigned one after the other, then committed; a request
\* that is refused leaves the row as it was (its session is closed without
\* a commit)
update_question(task_id, question_id, question_data, db_tasks, db_questions) ==
    IF ~\E t \in db_tasks : t.id = task_id
    THEN QuestionOutcome(Raise(404), db_questions)
    ELSE
    LET found == { q \in db_questions :
                     q.id = question_id /\ q.task_id = task_id }
    IN  IF found = {} THEN QuestionOutcome(Raise(404), db_questions)
        ELSE
        LET question == CHOOSE q \in found : TRUE
            provided == DOMAIN question_data
            answer_options ==
                IF "answer_options" \in provided
                   /\ Len(question_data.answer_options) > 0
                THEN question_data.answer_options
                ELSE question.answer_options
            updated == [question EXCEPT
                !.answer_options = IF "answer_options" \in provided
                                   THEN question_data.answer_options ELSE @,
                !.correct_answer = IF "correct_answer" \in provided
                                   THEN question_data.correct_answer ELSE @,
                !.weight = IF "weight" \in provided
                           THEN question_data.weight ELSE @,
                !.order = IF "order" \in provided
                          THEN question_data.order ELSE @]
        IN  IF "answer_options" \in provided
               /\ Len(question_data.answer_options) = 0
            THEN QuestionOutcome(Raise(400), db_questions)
            ELSE IF "correct_answer" \in provided
                    /\ (question_data.correct_answer < 0
                        \/ question_data.correct_answer
                             >= Len(answer_options))
            THEN QuestionOutcome(Raise(400), db_questions)
            ELSE IF "weight" \in provided /\ question_data.weight <= 0
            THEN QuestionOutcome(Raise(400), db_questions)
            ELSE IF "order" \in provided /\ question_data.order <= 0
            THEN QuestionOutcome(Raise(400), db_questions)
            ELSE IF ~QuestionConstraintsHold(updated)
            THEN QuestionOutcome(Raise(500), db_questions)
            ELSE QuestionOutcome(Return(200),
                                 (db_questions \ {question}) \cup {updated})

\* DELETE /tasks/{task_id}/questions/{question_id}
delete_question(task_id, question_id, db_tasks, db_questions) ==
    IF ~\E t \in db_tasks : t.id = task_id
    THEN QuestionOutcome(Raise(404), db_questions)
    ELSE
    LET found == { q \in db_questions :
                     q.id = question_id /\ q.task_id = task_id }
    IN  IF found = {} THEN QuestionOutcome(Raise(404), db_questions)
        ELSE QuestionOutcome(Return(204), db_questions \ found)

(***************************************************************************)
(* Specification SpecContent: create, update and delete requests for the   *)
(* questions of task 1 (task 2 does not exist), with valid and invalid     *)
(* bodies, on a table of at most MaxQuestions rows.                        *)
(***************************************************************************)
\* lists of 0 .. MaxOption + 1 answer options
AnswerOptionInputs ==
    { [i \in 1 .. n |-> "option"] : n \in 0 .. MaxOption + 1 }

CorrectAnswerInputs == -1 .. MaxOption + 1
WeightInputs == {0, MaxWeight}
OrderInputs == {0, 1}

QuestionCreateInputs ==
    [answer_options : AnswerOptionInputs, correct_answer : CorrectAnswerInputs,
     weight : WeightInputs, order : OrderInputs]

\* a field of a body: left out, or provided with one of its values
OptionalField(key, values) ==
    { << >> } \cup { [k \in {key} |-> v] : v \in values }

\* QuestionUpdate bodies: any of the fields, each with any of its values
QuestionUpdateInputs ==
    { a @@ c @@ w @@ o :
        a \in OptionalField("answer_options", AnswerOptionInputs),
        c \in OptionalField("correct_answer", CorrectAnswerInputs),
        w \in OptionalField("weight", WeightInputs),
        o \in OptionalField("order", OrderInputs) }

InitContent ==
    /\ InitFlowEmpty
    /\ tasks = { [id |-> 1, level |-> "A1", status |-> "draft"] }
    /\ users = << >>
    /\ call = [op |-> "none"]
    /\ ret = NoRet

ContentRequest(out) ==
    /\ task_questions' = out.questions
    /\ ret' = out.ret
    /\ UNCHANGED <<tasks, users, assessment_questions, assessments, progress,
                   user_data, procs, schema, now>>

CreateQuestion(task_id, question_data) ==
    /\ Cardinality(task_questions) < MaxQuestions
    /\ call' = [op |-> "create_question", task_id |-> task_id]
    /\ \E id \in TaskQuestionIds \ { q.id : q \in task_questions } :
          ContentRequest(create_question(task_id, question_data, id, tasks,
                                         task_questions))

UpdateQuestion(task_id, question_id, question_data) ==
    /\ call' = [op |-> "update_question", task_id |-> task_id,
                question_id |-> question_id,
                provided |-> DOMAIN question_data]
    /\ ContentRequest(update_question(task_id, question_id, question_data,
                                      tasks, task_questions))

DeleteQuestion(task_id, question_id) ==
    /\ call' = [op |-> "delete_question", task_id |-> task_id,
                question_id |-> question_id]
    /\ ContentRequest(delete_question(task_id, question_id, tasks,
                                      task_questions))

NextContent ==
    \E task_id \in 1 .. 2 :
        \/ \E question_data \in QuestionCreateInputs :
              CreateQuestion(task_id, question_data)
        \/ \E question_id \in TaskQuestionIds,
              question_data \in QuestionUpdateInputs :
              UpdateQuestion(task_id, question_id, question_data)
        \/ \E question_id \in TaskQuestionIds :
              DeleteQuestion(task_id, question_id)

SpecContent == InitContent /\ [][NextContent]_vars

\* C21: after any sequence of question create and update requests every
\* stored question has weight > 0 and 0 <= correct_answer < the number of
\* its answer_options, also after an update that replaces only
\* answer_options.
C21_StoredQuestionsValid ==
    \A q \in task_questions :
        /\ q.weight > 0
        /\ 0 <= q.correct_answer
        /\ q.correct_answer < Len(q.answer_options)

\* the handlers that may run complete_and_deliver_result
CompletingHandlers ==
    {"start_command", "assess_command", "handle_assessment_answer"}

\* this step ran a handler that completed the in-progress (or just started)
\* assessment id
CompletedByHandler(id) ==
    /\ call'.op \in CompletingHandlers
    /\ id \in DOMAIN assessments'
    /\ assessments'[id].status = COMPLETED
    /\ (id \in DOMAIN assessments => assessments[id].status = IN_PROGRESS)

\* the assessment's own question set: the question of each id of its list,
\* in the order of the list
OwnQuestions(assessment) ==
    [i \in DOMAIN assessment.questions |->
        CHOOSE q \in assessment_questions : q.id = assessment.questions[i]]

\* C22: when a handler completes an in-progress assessment through
\* complete_and_deliver_result, the stored score is calculate_score over the
\* assessment's own questions and its recorded answers (which the completion
\* does not alter), resulting_level is determine_level of that score, the
\* status is completed with completed_at stamped with the time of the step,
\* and the learner's current_level is that resulting_level.
C22_CompletionStoresScoreAndLevel ==
    [][\A id \in DOMAIN assessments' :
         CompletedByHandler(id) =>
            LET assessment == assessments'[id]
                score == calculate_score(OwnQuestions(assessment),
                                         assessment.answers)
            IN  /\ \A i \in DOMAIN assessment.questions :
                      \E q \in assessment_questions :
                          q.id = assessment.questions[i]
                /\ score.kind = "return"
                /\ assessment.score.num * score.value.den
                     = score.value.num * assessment.score.den
                /\ determine_level(assessment.score)
                     = Return(assessment.resulting_level)
                /\ assessment.completed_at = Timestamp(now)
                /\ now' = now + 1
                /\ assessment.user_id \in DOMAIN users'
                /\ users'[assessment.user_id].current_level
                     = assessment.resulting_level]_vars

\* the last answer button has completed an assessment of two questions, one
\* answered correctly and one not, and the learner has its level
C22_Witness ==
    /\ call.op = "handle_assessment_answer"
    /\ ret = Return("result")
    /\ \E id \in DOMAIN assessments :
          /\ assessments[id].status = COMPLETED
          /\ Len(assessments[id].questions) = 2
          /\ assessments[id].score.num > 0
          /\ assessments[id].score.num < assessments[id].score.den
          /\ users[assessments[id].user_id].current_level
               = assessments[id].resulting_level

\* the step is a run of handle_assessment_answer for question index
\* call'.question_index of the assessment in progress that the context of
\* the chat names
AnswerInProgress ==
    /\ call'.op = "handle_assessment_answer"
    /\ call'.chat \in DOMAIN users
    /\ CurrentAssessment("p1", call'.chat) # NULL
    /\ AssessmentActive(CurrentAssessment("p1", call'.chat), assessments)
    /\ call'.question_index
         < Len(assessments[CurrentAssessment("p1", call'.chat)].questions)

\* the answers with the entry of question_id set to answer_index
WithEntry(answers, question_id, answer_index) ==
    [k \in DOMAIN answers \cup {question_id} |->
        IF k = question_id THEN answer_index ELSE answers[k]]

\* C23: handle_assessment_answer for question index i of an assessment in
\* progress either fails before it records anything (the first Telegram
\* call raised) or sets the entry of the i-th question id to the option
\* chosen, keeping every other entry; it leaves the question set as it was,
\* and status, score, resulting_level and completed_at too unless i is the
\* last index and the handler goes on to complete the assessment.
C23_AnswerRecorded ==
    [][AnswerInProgress =>
         LET id == CurrentAssessment("p1", call'.chat)
             before == assessments[id]
             after == assessments'[id]
             question_id == before.questions[call'.question_index + 1]
             last == call'.question_index + 1 >= Len(before.questions)
         IN  /\ id \in DOMAIN assessments'
             /\ \/ /\ assessments' = assessments
                   /\ ret' = Return("telegram_error")
                \/ /\ after.answers = WithEntry(before.answers, question_id,
                                                call'.answer_index)
                   /\ after.questions = before.questions
                   /\ \A other \in DOMAIN assessments \ {id} :
                         assessments'[other] = assessments[other]
                   /\ \/ after = [before EXCEPT !.answers = after.answers]
                      \/ last /\ after.status = COMPLETED]_vars

\* the answer to the first of two questions has been recorded while the
\* entry of the second is kept, and the assessment is still in progress
\* with no score, level or completion time
C23_Witness ==
    /\ call.op = "handle_assessment_answer"
    /\ call.question_index = 0
    /\ ret = Return(QuestionMessage(1, 2))
    /\ \E id \in DOMAIN assessments :
          LET assessment == assessments[id]
          IN  /\ id = CurrentAssessment("p1", call.chat)
              /\ assessment.status = IN_PROGRESS
              /\ Len(assessment.questions) = 2
              /\ DOMAIN assessment.answers
                   = { assessment.questions[1], assessment.questions[2] }
              /\ assessment.answers[assessment.questions[1]]
                   = call.answer_index
              /\ assessment.answers[assessment.questions[2]]
                   # call.answer_index
              /\ assessment.resulting_level = NULL
              /\ assessment.completed_at = NULL

Started == DOMAIN assessments' \ DOMAIN assessments

\* the current question index send_assessment_question finds in the context
\* when /start or /assess has started an assessment: the keys are popped
\* only if an assessment in progress was abandoned
IndexAtStart ==
    IF call'.existing # NULL THEN 0
    ELSE Get(user_data["p1"][call'.chat], "current_question_index", 0)

\* C25: send_assessment_question, called by /start and /assess for the
\* assessment just started (and no Telegram call failing), completes the
\* assessment if the context's current question index is greater than or
\* equal to the number of its questions and delivers the question at that
\* index otherwise; an assessment started with an empty question set is
\* completed in the same step with score 0 and level A1.
C25_CompletesPastLastQuestion ==
    [][(call'.op \in {"start_command", "assess_command"}
        /\ ret' # Return("telegram_error")) =>
         \A id \in Started :
            LET after == assessments'[id]
                n == Len(after.questions)
            IN  /\ IF IndexAtStart >= n
                   THEN /\ after.status = COMPLETED
                        /\ ret' = Return("result")
                   ELSE /\ after.status = IN_PROGRESS
                        /\ ret' = Return(QuestionMessage(IndexAtStart, n))
                /\ n = 0 =>
                      /\ after.status = COMPLETED
                      /\ after.score.num = 0
                      /\ after.resulting_level = "A1"
                      /\ after.completed_at = Timestamp(now)]_vars

\* /assess on an empty question bank has started an assessment without
\* questions and completed it at once with score 0 and level A1
C25_Witness ==
    /\ call.op = "assess_command"
    /\ ret = Return("result")
    /\ assessment_questions = {}
    /\ \E id \in DOMAIN assessments :
          /\ assessments[id].questions = << >>
          /\ assessments[id].status = COMPLETED
          /\ assessments[id].score.num = 0
          /\ assessments[id].resulting_level = "A1"
          /\ users[call.chat].current_level = "A1"

\* the step is a call of complete_task for a user that does not exist, a
\* task that does not exist or a task without questions
CompleteTaskRefused ==
    /\ call'.op = "complete_task"
    /\ now' = now + 1
    /\ \/ call'.user_id \notin DOMAIN users
       \/ ~\E t \in tasks : t.id = call'.task_id
       \/ ~\E q \in task_questions : q.task_id = call'.task_id

\* C26: complete_task for a user that does not exist, a task that does not
\* exist or a task without questions raises TaskDeliveryError and creates
\* or modifies no Progress record.
C26_RefusedCompletionChangesNothing ==
    [][CompleteTaskRefused =>
         /\ ret'.kind = "raise"
         /\ ret'.value = "TaskDeliveryError"
         /\ progress' = progress]_vars

\* after a learner's completion was stored, a completion of a task without
\* questions by a registered learner has been refused
C26_Witness ==
    /\ call.op = "complete_task"
    /\ call.user_id \in DOMAIN users
    /\ \E t \in tasks : t.id = call.task_id
    /\ ~\E q \in task_questions : q.task_id = call.task_id
    /\ ret = Raise("TaskDeliveryError")
    /\ progress # {}

(***************************************************************************)
(* Specification SpecSelect: _select_assessment_questions applied to every *)
(* bank drawn from MaxAtLevel questions of level A1, one of level B1 and   *)
(* one of level C2.                                                        *)
(***************************************************************************)
MaxAtLevel == 3

BankInputs ==
    { [id |-> "A1-" \o ToString(i), level |-> "A1", correct_answer |-> 0,
       weight |-> 2] : i \in 1 .. MaxAtLevel }
    \cup { [id |-> "B1-1", level |-> "B1", correct_answer |-> 0, weight |-> 2],
           [id |-> "C2-1", level |-> "C2", correct_answer |-> 0, weight |-> 2] }

InitSelect ==
    /\ tasks = {}
    /\ users = << >>
    /\ call = [op |-> "_select_assessment_questions"]
    /\ ret = NoRet
    /\ assessment_questions \in SUBSET BankInputs
    /\ assessments = << >>
    /\ task_questions = {}
    /\ progress = {}
    /\ user_data = [p \in Procs |-> [c \in Chats |-> EmptyUserData]]
    /\ procs = [p \in Procs |-> Idle]
    /\ schema = "alembic"
    /\ now = 0

SelectAssessmentQuestions ==
    /\ ret = NoRet
    /\ \E selected_question_ids \in
            _select_assessment_questions(assessment_questions) :
          ret' = Return(selected_question_ids)
    /\ UNCHANGED <<tasks, users, call>>
    /\ UNCHANGED flowvars

NextSelect == SelectAssessmentQuestions

SpecSelect == InitSelect /\ [][NextSelect]_vars

SelectionDone == call.op = "_select_assessment_questions" /\ ret # NoRet

\* the positions of the list that hold the id of a question of the level
PositionsAtLevel(ids, level) ==
    { i \in DOMAIN ids :
        \E q \in assessment_questions : q.id = ids[i] /\ q.level = level }

\* max(2, num_questions // 6)
PerLevelCap == IF num_questions \div 6 > 2 THEN num_questions \div 6 ELSE 2

\* C27: the list _select_assessment_questions returns for the default
\* num_questions holds ids of questions of the bank, no id twice, is not
\* empty when the bank is not empty, has at most num_questions entries and
\* at most max(2, num_questions // 6) ids of any one level.
C27_SelectionBalanced ==
    SelectionDone =>
        LET ids == ret.value
        IN  /\ ret.kind = "return"
            /\ \A i \in DOMAIN ids :
                  \E q \in assessment_questions : q.id = ids[i]
            /\ \A i, j \in DOMAIN ids : i # j => ids[i] # ids[j]
            /\ assessment_questions # {} => Len(ids) > 0
            /\ Len(ids) <= num_questions
            /\ \A level \in Levels :
                  Cardinality(PositionsAtLevel(ids, level)) <= PerLevelCap

\* a selection from a bank with three questions of level A1 and one of B1:
\* two of A1 and the one of B1
C27_Witness ==
    /\ SelectionDone
    /\ Cardinality({ q \in assessment_questions : q.level = "A1" }) = 3
    /\ Cardinality(PositionsAtLevel(ret.value, "A1")) = 2
    /\ Cardinality(PositionsAtLevel(ret.value, "B1")) = 1

\* C28: in every state the bot handlers (/start, /assess and answer buttons
\* carrying any question index, with the completions and abandonments they
\* perform) can reach, every key of an assessment's answers is a question
\* id of that assessment's own question list.
C28_AnswerKeysAreOwnQuestions ==
    \A id \in DOMAIN assessments :
        DOMAIN assessments[id].answers \subseteq Range(assessments[id].questions)

\* an assessment abandoned with one answer recorded and a later one
\* completed with both questions answered
C28_Witness ==
    \E a1, a2 \in DOMAIN assessments :
        /\ assessments[a1].status = ABANDONED
        /\ Cardinality(DOMAIN assessments[a1].answers) = 1
        /\ assessments[a2].status = COMPLETED
        /\ Cardinality(DOMAIN assessments[a2].answers) = 2

\* C29: every assessment /start or /assess starts begins delivery at
\* question index 0: when send_assessment_question runs for it, the
\* context's current question index is absent or 0, so that (no Telegram
\* call failing) an assessment with questions is left in progress with its
\* first question delivered, whatever earlier flows of the chat left behind.
C29_DeliveryBeginsAtFirstQuestion ==
    [][call'.op \in {"start_command", "assess_command"} =>
         \A id \in Started :
            LET after == assessments'[id]
                n == Len(after.questions)
            IN  /\ IndexAtStart = 0
                /\ (n > 0 /\ ret' # Return("telegram_error")) =>
                      /\ after.status = IN_PROGRESS
                      /\ ret' = Return(QuestionMessage(0, n))]_vars

\* C30: in every reachable state a learner's current_level is null or one
\* of A1..C2, and a non-null current_level is the resulting_level of a
\* completed assessment of that learner: the level is written only after
\* the assessment is stored as completed.
C30_LevelComesFromCompletedAssessment ==
    \A u \in DOMAIN users :
       /\ users[u].current_level \in Levels \cup {NULL}
       /\ users[u].current_level # NULL =>
             \E id \in DOMAIN assessments :
                /\ assessments[id].user_id = u
                /\ assessments[id].status = COMPLETED
                /\ assessments[id].resulting_level = users[u].current_level

\* a learner completed two assessments with different results; the level is
\* the result of one of them
C30_Witness ==
    \E u \in DOMAIN users, a1, a2 \in DOMAIN assessments :
       /\ assessments[a1].user_id = u
       /\ assessments[a2].user_id = u
       /\ assessments[a1].status = COMPLETED
       /\ assessments[a2].status = COMPLETED
       /\ assessments[a1].resulting_level # assessments[a2].resulting_level
       /\ users[u].current_level = assessments[a2].resulting_level

====
